---- MODULE Spec2Model ----
(***************************************************************************)
(* android-usbser: the CDC-ACM serial session (src/ser_cdc.rs) over the    *)
(* Android bulk/control transfer calls (src/usb_conn.rs), and the          *)
(* synchronous wrappers of an asynchronous transfer queue                  *)
(* (src/usb_sync.rs).                                                      *)
(*                                                                         *)
(* Two state machines share this module:                                   *)
(*   Spec        the CdcSerial session: every public call is one atomic    *)
(*               step (the calls are synchronous), the device is attached  *)
(*               and detached by the environment between calls;            *)
(*   SpecEngine  SyncReader / SyncWriter: a call is a small process that   *)
(*               submits, waits against the deadline, cancels and waits    *)
(*               again, interleaved with the transport completing the      *)
(*               request.                                                  *)
(* Further specifications restrict or extend the session machine:          *)
(*   SpecTimeouts  the session with every Duration set_timeout accepts,    *)
(*                 Duration::MAX included;                                 *)
(*   SpecConfig    SerialConfig's Display, FromStr and Into<[u8; 7]>;      *)
(*   SpecOpen      CdcSerial::build over enumerated devices, and Drop;     *)
(*   SpecProbe     CdcSerial::probe over lists of enumerated devices;      *)
(*   SpecClose     a built session used, detached, attached and dropped;   *)
(*   SpecParse     SerialConfig's FromStr over well-formed and malformed   *)
(*                 texts;                                                  *)
(*   SpecPort      the session driven through the serialport trait's       *)
(*                 single-field setters and line writers;                  *)
(*   SpecHandle    DeviceHandle's bulk and control transfers.              *)
(***************************************************************************)
EXTENDS Integers, Sequences, FiniteSets, TLC

VARIABLES
    \* ---- CdcSerial (src/ser_cdc.rs:39-51) ----
    is_connected,   \* Cell<bool>
    timeout,        \* Duration: whole seconds and the nanoseconds beyond them
    ser_conf,       \* Option<SerialConfig>
    dtr_rts,        \* (bool, bool)
    ctrl_index,     \* communication interface number
    \* ---- environment of the session ----
    attached,       \* the device is in the list of connected devices
    last,           \* the last call on the session and what it did
    nc_returned,    \* some call on the session has returned NotConnected
    hist_conf,      \* argument of the last set_config that returned Ok, or NoConf
    hist_lines,     \* arguments of the last set_dtr_rts that returned Ok
    \* ---- SyncReader / SyncWriter (src/usb_sync.rs), one per direction ----
    rw_pc,          \* position of the running read()/write() call
    slot,           \* self.buf: NoBuf while taken, else which Vec it holds
    q_pending,      \* what queue.pending() counts
    q_cancel,       \* cancellation has been requested for the pending request
    q_comp,         \* the completion the transport has produced, or NoComp
    req,            \* arguments of the running call
    cbuf,           \* the caller's buffer of the running / last call
    q_calls,        \* how often the running / last call called submit and cancel_all
    ret,            \* what the last call returned
    \* ---- SerialConfig conversions (src/ser_cdc.rs:246-381) ----
    cfg,            \* a SerialConfig and what formatting, parsing and encoding made of it
    \* ---- probe, build and drop (src/ser_cdc.rs:55-138, 237-244) ----
    devices,        \* what UsbManager::getDeviceList enumerates, in its order
    found,          \* what the last probe() returned
    built,          \* what build() returned and which interfaces and endpoints it chose
    handle_log      \* the calls made on the platform for the device, in order

sessVars == <<is_connected, timeout, ser_conf, dtr_rts, ctrl_index, attached, last, nc_returned,
              hist_conf, hist_lines>>
engVars  == <<rw_pc, slot, q_pending, q_cancel, q_comp, req, cbuf, q_calls, ret>>
auxVars  == <<cfg, devices, found, built, handle_log>>
vars     == <<is_connected, timeout, ser_conf, dtr_rts, ctrl_index, attached, last, nc_returned,
              hist_conf, hist_lines,
              rw_pc, slot, q_pending, q_cancel, q_comp, req, cbuf, q_calls, ret,
              cfg, devices, found, built, handle_log>>

(***************************************************************************)
(* Bounds                                                                  *)
(***************************************************************************)
MaxLen     == 2     \* longest caller buffer
MaxTimeoutIdx == 2  \* how many of the timeouts below a session is given
MaxWait    == 1     \* largest timeout handed to the engine, in milliseconds
MaxIntf    == 1     \* largest communication interface number
MaxBaudIdx == 2     \* how many of the baud rates below are used
MaxIntrs   == 3     \* most interfaces (alternate settings counted) of a device
MaxDevs    == 3     \* most devices enumerated
MaxFields  == 5     \* most comma-separated fields of a parsed text

(***************************************************************************)
(* SerialConfig and its 7-byte line coding                                 *)
(***************************************************************************)
\* TLC integers are 32-bit signed: the largest rate used here is 2^31 - 1
BaudRates == <<9600, 115200, 2147483647>>

SerialConfig(b, p, d, s) == [baud_rate |-> b, parity |-> p, data_bits |-> d, stop_bits |-> s]

\* the configurations handed to set_config in the session model
ConfSet == { SerialConfig(BaudRates[i], p, "Eight", "One") :
               i \in 1..MaxBaudIdx, p \in {"None", "Mark"} }

\* Default for SerialConfig: 9600,N,8,1
DefaultConfig == SerialConfig(9600, "None", "Eight", "One")
\* Option::None of Option<SerialConfig>: a record no SerialConfig equals
NoConf == [baud_rate |-> 0, parity |-> "-", data_bits |-> "-", stop_bits |-> "-"]

to_be_bytes(n) == << (n \div 16777216) % 256, (n \div 65536) % 256, (n \div 256) % 256, n % 256 >>
to_le_bytes(n) == << n % 256, (n \div 256) % 256, (n \div 65536) % 256, (n \div 16777216) % 256 >>

parity_code_no_space(p) == CASE p = "None" -> 0 [] p = "Odd" -> 1 [] p = "Even" -> 2
                             [] p = "Mark" -> 3 [] p = "Space" -> 3
parity_code(p) == CASE p = "None" -> 0 [] p = "Odd" -> 1 [] p = "Even" -> 2
                    [] p = "Mark" -> 3 [] p = "Space" -> 4

\* impl Into<[u8; 7]> for SerialConfig
line_coding(c) ==
    LET s == c.stop_bits
        d == c.data_bits
    IN  to_le_bytes(c.baud_rate)
          \o << CASE s = "One" -> 0 [] s = "OnePointFive" -> 1 [] s = "Two" -> 2,
                parity_code(c.parity),
                CASE d = "Five" -> 5 [] d = "Six" -> 6 [] d = "Seven" -> 7
                  [] d = "Eight" -> 8 [] d = "Sixteen" -> 16 >>

\* every SerialConfig of the conversions below: rate zero, the rates above,
\* every parity, data-bits and stop-bits value
ConfigUniverse == { SerialConfig(b, p, d, s) :
                      b \in {0} \cup {BaudRates[i] : i \in 1..MaxBaudIdx},
                      p \in {"None", "Odd", "Even", "Mark", "Space"},
                      d \in {"Five", "Six", "Seven", "Eight", "Sixteen"},
                      s \in {"One", "OnePointFive", "Two"} }

(***************************************************************************)
(* SerialConfig as text: a str is a sequence of one-character strings      *)
(***************************************************************************)
DigitChars == << "0", "1", "2", "3", "4", "5", "6", "7", "8", "9" >>

\* the largest integer held: u32::MAX of a parsed rate and u64::MAX of a
\* Duration's seconds are narrowed to 31 bits, their overflow kept
INT_MAX == 2147483647

\* Display of an unsigned integer
RECURSIVE to_string(_)
to_string(n) ==
    IF n < 10 THEN << DigitChars[n + 1] >>
    ELSE Append(to_string(n \div 10), DigitChars[(n % 10) + 1])

stop_bits_str_comma(s) == CASE s = "One" -> << "1" >>
                            [] s = "OnePointFive" -> << "1", ",", "5" >>
                            [] s = "Two" -> << "2" >>
stop_bits_str(s) == CASE s = "One" -> << "1" >>
                      [] s = "OnePointFive" -> << "1", ".", "5" >>
                      [] s = "Two" -> << "2" >>

\* impl Display for SerialConfig: "{baud_rate},{parity},{data_bits},{stop_bits}"
fmt(c) ==
    LET p == c.parity
        d == c.data_bits
    IN  to_string(c.baud_rate)
          \o << ",",
                CASE p = "None" -> "N" [] p = "Odd" -> "O" [] p = "Even" -> "E"
                  [] p = "Mark" -> "M" [] p = "Space" -> "S",
                "," >>
          \o (CASE d = "Five" -> << "5" >> [] d = "Six" -> << "6" >>
                [] d = "Seven" -> << "7" >> [] d = "Eight" -> << "8" >>
                [] d = "Sixteen" -> << "1", "6" >>)
          \o << "," >> \o stop_bits_str(c.stop_bits)

\* str::split(','): the fields between the commas, at least one
RECURSIVE split(_)
split(s) ==
    IF \A i \in 1..Len(s) : s[i] # ","
    THEN << s >>
    ELSE LET i == CHOOSE k \in 1..Len(s) : s[k] = "," /\ \A j \in 1..(k - 1) : s[j] # ","
         IN  << SubSeq(s, 1, i - 1) >> \o split(SubSeq(s, i + 1, Len(s)))

\* str::trim: the blanks at both ends removed
RECURSIVE trim(_)
trim(s) ==
    IF s = << >> THEN s
    ELSE IF Head(s) = " " THEN trim(Tail(s))
    ELSE IF s[Len(s)] = " " THEN trim(SubSeq(s, 1, Len(s) - 1))
    ELSE s

\* the digits of an integer, most significant first; an overflow is an error
RECURSIVE parse_digits(_, _)
parse_digits(s, acc) ==
    IF s = << >> THEN [ok |-> TRUE, val |-> acc]
    ELSE IF \A i \in 1..10 : DigitChars[i] # Head(s) THEN [ok |-> FALSE, val |-> 0]
    ELSE LET digit == (CHOOSE i \in 1..10 : DigitChars[i] = Head(s)) - 1
         IN  IF acc > (INT_MAX - digit) \div 10 THEN [ok |-> FALSE, val |-> 0]
             ELSE parse_digits(Tail(s), acc * 10 + digit)

\* str::parse::<u32>: digits after an optional plus sign
parse_u32_empty_zero(s) ==
    LET body == IF s # << >> /\ Head(s) = "+" THEN Tail(s) ELSE s
    IN  IF body = << >> THEN [ok |-> TRUE, val |-> 0] ELSE parse_digits(body, 0)
parse_u32(s) ==
    LET body == IF s # << >> /\ Head(s) = "+" THEN Tail(s) ELSE s
    IN  IF body = << >> THEN [ok |-> FALSE, val |-> 0] ELSE parse_digits(body, 0)

\* str::parse::<i32>: digits after an optional sign
parse_i32(s) ==
    IF s # << >> /\ Head(s) = "-"
    THEN LET r == parse_u32(<< "+" >> \o Tail(s))
         IN  IF Tail(s) # << >> /\ Head(Tail(s)) = "+" THEN [ok |-> FALSE, val |-> 0]
             ELSE [ok |-> r.ok, val |-> 0 - r.val]
    ELSE parse_u32(s)

\* the zeros at the end of a fraction carry no value
RECURSIVE strip_zeros(_)
strip_zeros(s) ==
    IF s # << >> /\ s[Len(s)] = "0" THEN strip_zeros(SubSeq(s, 1, Len(s) - 1)) ELSE s

\* str::parse::<f64> on the decimal forms "d", "d.", "d.d" and ".d" (no sign,
\* no exponent): the whole part and the tenths; a value with digits beyond
\* the tenths, which none of the stop-bits values has, is reported as an error
parse_f64(s) ==
    LET dots == {i \in 1..Len(s) : s[i] = "."}
        dot  == IF dots = {} THEN Len(s) + 1 ELSE CHOOSE i \in dots : \A j \in dots : i <= j
        whole == SubSeq(s, 1, dot - 1)
        frac  == strip_zeros(SubSeq(s, dot + 1, Len(s)))
        w == IF whole = << >> THEN [ok |-> TRUE, val |-> 0] ELSE parse_digits(whole, 0)
        f == IF frac = << >> THEN [ok |-> TRUE, val |-> 0] ELSE parse_digits(frac, 0)
    IN  IF whole = << >> /\ dot + 1 > Len(s) THEN [ok |-> FALSE, whole |-> 0, tenths |-> 0]
        ELSE IF ~w.ok \/ ~f.ok \/ Len(frac) > 1 THEN [ok |-> FALSE, whole |-> 0, tenths |-> 0]
        ELSE [ok |-> TRUE, whole |-> w.val, tenths |-> f.val]

\* Err(Error::new(ErrorKind::InvalidInput, s))
BadPar == [ok |-> FALSE, conf |-> NoConf]

\* impl FromStr for SerialConfig
from_str(s) ==
    LET strs == split(s) IN
    IF Len(strs) < 4 THEN BadPar
    ELSE
      LET baud_rate == parse_u32(trim(strs[1]))
          str_parity == trim(strs[2])
          data_bits == parse_i32(trim(strs[3]))
          stop_bits == parse_f64(trim(strs[4]))
      IN  IF ~baud_rate.ok THEN BadPar
          ELSE IF str_parity = << >> \/ Head(str_parity) \notin {"N", "O", "E", "M", "S"}
          THEN BadPar
          ELSE IF ~data_bits.ok \/ data_bits.val \notin {5, 6, 7, 8, 16} THEN BadPar
          ELSE IF \/ ~stop_bits.ok
                  \/ <<stop_bits.whole, stop_bits.tenths>> \notin {<<1, 0>>, <<1, 5>>, <<2, 0>>}
          THEN BadPar
          ELSE [ok |-> TRUE,
                conf |-> SerialConfig(
                    baud_rate.val,
                    CASE Head(str_parity) = "N" -> "None" [] Head(str_parity) = "O" -> "Odd"
                      [] Head(str_parity) = "E" -> "Even" [] Head(str_parity) = "M" -> "Mark"
                      [] Head(str_parity) = "S" -> "Space",
                    CASE data_bits.val = 5 -> "Five" [] data_bits.val = 6 -> "Six"
                      [] data_bits.val = 7 -> "Seven" [] data_bits.val = 8 -> "Eight"
                      [] data_bits.val = 16 -> "Sixteen",
                    CASE <<stop_bits.whole, stop_bits.tenths>> = <<1, 0>> -> "One"
                      [] <<stop_bits.whole, stop_bits.tenths>> = <<1, 5>> -> "OnePointFive"
                      [] <<stop_bits.whole, stop_bits.tenths>> = <<2, 0>> -> "Two")]

SET_LINE_CODING        == 32
SET_CONTROL_LINE_STATE == 34
SEND_BREAK             == 35

\* usb_info::ctrl_request_type: direction in bit 7, type in bits 5-6,
\* recipient in bits 0-4 (the fields do not overlap, so | is +)
ctrl_request_type(direction, request_type, recipient) ==
    (CASE direction = "Out" -> 0 [] direction = "In" -> 128)
    + 32 * (CASE request_type = "Standard" -> 0 [] request_type = "Class" -> 1
              [] request_type = "Vendor" -> 2 [] request_type = "Reserved" -> 3)
    + (CASE recipient = "Device" -> 0 [] recipient = "Interface" -> 1
         [] recipient = "Endpoint" -> 2 [] recipient = "Other" -> 3)

USB_CTRL_REQTYPE_ACM   == ctrl_request_type("Out", "Class", "Interface")

\* usb_info::ctrl_request_dir: the direction in bit 7 of a request type
\* (the mask leaves 0x80 or 0x00, so the None arm is never taken)
ctrl_request_dir(req_type) ==
    LET masked == ((req_type \div 128) % 2) * 128
    IN  CASE masked = 128 -> "In" [] masked = 0 -> "Out" [] OTHER -> "None"

(***************************************************************************)
(* Duration (core::time), as far as the session uses it                    *)
(***************************************************************************)
NANOS_PER_SEC   == 1000000000
NANOS_PER_MILLI == 1000000
MILLIS_PER_SEC  == 1000
\* i32::MAX, the largest jint
JINT_MAX        == 2147483647

Duration(secs, nanos) == [secs |-> secs, nanos |-> nanos]
from_millis(ms) ==
    Duration(ms \div MILLIS_PER_SEC, (ms % MILLIS_PER_SEC) * NANOS_PER_MILLI)
DURATION_ZERO == Duration(0, 0)

\* the timeouts a session is given: none, a millisecond, a fraction of a
\* millisecond, more milliseconds than a jint holds
Timeouts == << DURATION_ZERO, from_millis(1), Duration(0, 300000),
               Duration(JINT_MAX \div MILLIS_PER_SEC + 1, 0) >>
TimeoutSet == {Timeouts[i] : i \in 1..MaxTimeoutIdx}
\* every timeout above, and Duration::MAX
AllTimeouts == {Timeouts[i] : i \in 1..Len(Timeouts)}
                 \cup {Duration(INT_MAX, NANOS_PER_SEC - 1)}

\* Duration::checked_mul: None (here FALSE in .some) when the seconds overflow
checked_mul(d, k) ==
    LET total == d.nanos * k
        extra == total \div NANOS_PER_SEC
    IN  IF d.secs > (INT_MAX - extra) \div k
        THEN [some |-> FALSE, val |-> DURATION_ZERO]
        ELSE [some |-> TRUE,
              val  |-> Duration(d.secs * k + extra, total % NANOS_PER_SEC)]

\* timeout.as_millis().min(i32::MAX as u128) as jint
as_millis_jint(d) ==
    IF \/ d.secs > JINT_MAX \div MILLIS_PER_SEC
       \/ /\ d.secs = JINT_MAX \div MILLIS_PER_SEC
          /\ d.nanos \div NANOS_PER_MILLI >= JINT_MAX % MILLIS_PER_SEC
    THEN JINT_MAX
    ELSE d.secs * MILLIS_PER_SEC + d.nanos \div NANOS_PER_MILLI

(***************************************************************************)
(* The session                                                             *)
(***************************************************************************)
NoXfer == << >>

\* one transfer handed to UsbDeviceConnection: dur is the Duration the
\* DeviceHandle is given, tmo the milliseconds it hands to the platform
BulkXfer(dir, len, dur) ==
    [kind |-> dir, reqtype |-> 0, request |-> 0, value |-> 0, index |-> 0,
     data |-> << >>, len |-> len, dur |-> dur, tmo |-> as_millis_jint(dur)]
CtrlXfer(request, value, index, buf, dur) ==
    [kind |-> "ctrl", reqtype |-> USB_CTRL_REQTYPE_ACM, request |-> request,
     value |-> value, index |-> index, data |-> buf, len |-> Len(buf),
     dur |-> dur, tmo |-> as_millis_jint(dur)]

\* the arguments of a call: the length of the buffer handed in, the
\* SerialConfig, the (dtr, rts) pair, the break state and the timeout, each
\* at a default when the call has no such argument
NoArg == [len |-> 0, conf |-> NoConf, lines |-> <<FALSE, FALSE>>, val |-> FALSE,
          dur |-> DURATION_ZERO]
Arg(field, v) == [NoArg EXCEPT ![field] = v]

\* the record of a call: which call, its arguments, the flag when it began,
\* the result kind, the byte count the platform reported, the transfers it
\* issued, whether the connection was re-checked, why the platform failed
\* the transfer ("none" when it did not), and a bit that flips on every call
Call(op, arg, res, n, xfers, chk, cause) ==
    [op |-> op, arg |-> arg, conn |-> is_connected, res |-> res, n |-> n,
     xfers |-> xfers, chk |-> chk, cause |-> cause, seq |-> 1 - last.seq]

\* DeviceInfo::check_connection: list_devices().unwrap_or_default() holds the device
check_connection(listOk) == listOk /\ attached

\* CdcSerial::get_handle: the handle is handed out only while the flag is set
get_handle_always(conn) == TRUE
get_handle(conn) == conn

\* CdcSerial::err_map_to_io: the flag after the error and the kind of the io::Error
err_map_to_io_unmarked(conn, present) ==
    IF conn /\ present
    THEN [conn |-> conn, kind |-> "Other"]
    ELSE [conn |-> conn, kind |-> "NotConnected"]
err_map_to_io(conn, present) ==
    IF conn /\ present
    THEN [conn |-> conn,  kind |-> "Other"]
    ELSE [conn |-> FALSE, kind |-> "NotConnected"]

\* what bulkTransfer / controlTransfer can return for a buffer of len bytes:
\* a negative value on failure, always a failure once the device is gone
PlatformReturns(len) == IF attached THEN -1 .. len ELSE {-1}

\* why the platform returned r: every failure is the same negative value,
\* whether the device is gone, the transfer failed or its deadline expired
\* with nothing moved (a zero timeout is no deadline)
PlatformCauses(r, tmo) ==
    IF r >= 0 THEN {"none"}
    ELSE IF ~attached THEN {"gone"}
    ELSE IF tmo = 0 THEN {"io"}
    ELSE {"io", "timeout"}

\* the record of the build that made the session
BuildCall == [op |-> "build", arg |-> NoArg, conn |-> TRUE, res |-> "Ok", n |-> 0,
              xfers |-> NoXfer, chk |-> "none", cause |-> "none", seq |-> 0]

SessInit ==
    /\ is_connected = TRUE
    /\ timeout \in TimeoutSet
    /\ ser_conf = NoConf
    /\ dtr_rts = <<FALSE, FALSE>>
    /\ ctrl_index \in 0..MaxIntf
    /\ attached = TRUE
    /\ last = BuildCall
    /\ nc_returned = FALSE
    /\ hist_conf = NoConf
    /\ hist_lines = <<FALSE, FALSE>>

bulk_no_empty_check(op, dir, len) ==
    IF ~get_handle(is_connected)
    THEN /\ last' = Call(op, Arg("len", len), "NotConnected", 0, NoXfer, "none", "none")
         /\ UNCHANGED is_connected
    ELSE \E r \in PlatformReturns(len), listOk \in BOOLEAN :
         \E cause \in PlatformCauses(r, as_millis_jint(timeout)) :
           LET x == << BulkXfer(dir, len, timeout) >> IN
           IF r >= 0
           THEN /\ last' = Call(op, Arg("len", len), "Ok", r, x, "none", cause)
                /\ UNCHANGED is_connected
           ELSE LET present == check_connection(listOk)
                    e == err_map_to_io(is_connected, present) IN
                /\ last' = Call(op, Arg("len", len), e.kind, 0, x,
                                IF present THEN "present" ELSE "absent", cause)
                /\ is_connected' = e.conn

\* DeviceHandle::read_bulk / write_bulk behind impl Read / impl Write for CdcSerial
bulk(op, dir, len) ==
    IF ~get_handle(is_connected)
    THEN /\ last' = Call(op, Arg("len", len), "NotConnected", 0, NoXfer, "none", "none")
         /\ UNCHANGED is_connected
    ELSE IF len = 0
    THEN /\ last' = Call(op, Arg("len", len), "Ok", 0, NoXfer, "none", "none")
         /\ UNCHANGED is_connected
    ELSE \E r \in PlatformReturns(len), listOk \in BOOLEAN :
         \E cause \in PlatformCauses(r, as_millis_jint(timeout)) :
           LET x == << BulkXfer(dir, len, timeout) >> IN
           IF r >= 0
           THEN /\ last' = Call(op, Arg("len", len), "Ok", r, x, "none", cause)
                /\ UNCHANGED is_connected
           ELSE LET present == check_connection(listOk)
                    e == err_map_to_io(is_connected, present) IN
                /\ last' = Call(op, Arg("len", len), e.kind, 0, x,
                                IF present THEN "present" ELSE "absent", cause)
                /\ is_connected' = e.conn

read_reconnect(len) ==
    /\ IF ~is_connected /\ attached
       THEN /\ is_connected' = TRUE
            /\ last' = Call("read", Arg("len", len), "Other", 0, NoXfer, "present", "none")
       ELSE bulk("read", "bulk_in", len)
    /\ UNCHANGED <<timeout, ser_conf, dtr_rts, ctrl_index, attached>>

read(len) ==
    /\ bulk("read", "bulk_in", len)
    /\ UNCHANGED <<timeout, ser_conf, dtr_rts, ctrl_index, attached>>

write(len) ==
    /\ bulk("write", "bulk_out", len)
    /\ UNCHANGED <<timeout, ser_conf, dtr_rts, ctrl_index, attached>>

cdc_acm_ctrl_set_unchecked(op, arg, request, value, buf, ok) ==
    IF ~get_handle(is_connected)
    THEN /\ last' = Call(op, arg, "NotConnected", 0, NoXfer, "none", "none")
         /\ UNCHANGED <<is_connected, ser_conf, dtr_rts>>
    ELSE IF ~checked_mul(timeout, 2).some
    THEN /\ last' = Call(op, arg, "panic", 0, NoXfer, "none", "none")
         /\ UNCHANGED <<is_connected, ser_conf, dtr_rts>>
    ELSE \E r \in PlatformReturns(Len(buf)), listOk \in BOOLEAN :
         \E cause \in PlatformCauses(r, as_millis_jint(checked_mul(timeout, 2).val)) :
           LET x == << CtrlXfer(request, value, ctrl_index, buf,
                                checked_mul(timeout, 2).val) >> IN
           IF r >= 0
           THEN /\ last' = Call(op, arg, "Ok", r, x, "none", cause)
                /\ UNCHANGED is_connected
                /\ ok
           ELSE LET present == check_connection(listOk)
                    e == err_map_to_io(is_connected, present) IN
                /\ last' = Call(op, arg, e.kind, 0, x,
                                IF present THEN "present" ELSE "absent", cause)
                /\ is_connected' = e.conn
                /\ UNCHANGED <<ser_conf, dtr_rts>>

\* CdcSerial::cdc_acm_ctrl_set: the call record and the flag it leaves;
\* ok is what the caller does to the caches when the request went through.
\* self.timeout * 2 panics when the doubled Duration overflows
cdc_acm_ctrl_set(op, arg, request, value, buf, ok) ==
    IF ~get_handle(is_connected)
    THEN /\ last' = Call(op, arg, "NotConnected", 0, NoXfer, "none", "none")
         /\ UNCHANGED <<is_connected, ser_conf, dtr_rts>>
    ELSE IF ~checked_mul(timeout, 2).some
    THEN /\ last' = Call(op, arg, "panic", 0, NoXfer, "none", "none")
         /\ UNCHANGED <<is_connected, ser_conf, dtr_rts>>
    ELSE \E r \in PlatformReturns(Len(buf)), listOk \in BOOLEAN :
         \E cause \in PlatformCauses(r, as_millis_jint(checked_mul(timeout, 2).val)) :
           LET x == << CtrlXfer(request, value, ctrl_index, buf,
                                checked_mul(timeout, 2).val) >> IN
           IF r >= 0
           THEN IF r = Len(buf)
                THEN /\ last' = Call(op, arg, "Ok", r, x, "none", cause)
                     /\ UNCHANGED is_connected
                     /\ ok
                ELSE /\ last' = Call(op, arg, "Interrupted", r, x, "none", cause)
                     /\ UNCHANGED <<is_connected, ser_conf, dtr_rts>>
           ELSE LET present == check_connection(listOk)
                    e == err_map_to_io(is_connected, present) IN
                /\ last' = Call(op, arg, e.kind, 0, x,
                                IF present THEN "present" ELSE "absent", cause)
                /\ is_connected' = e.conn
                /\ UNCHANGED <<ser_conf, dtr_rts>>

set_config(conf) ==
    /\ cdc_acm_ctrl_set("set_config", [Arg("conf", conf) EXCEPT !.len = 7],
                        SET_LINE_CODING, 0, line_coding(conf),
                        ser_conf' = conf /\ UNCHANGED dtr_rts)
    /\ UNCHANGED <<timeout, ctrl_index, attached>>

set_dtr_rts_cache_swapped(dtr, rts) ==
    LET val_dtr == IF dtr THEN 1 ELSE 0
        val_rts == IF rts THEN 2 ELSE 0
    IN  /\ cdc_acm_ctrl_set("set_dtr_rts", Arg("lines", <<dtr, rts>>), SET_CONTROL_LINE_STATE,
                            val_dtr + val_rts, << >>,
                            dtr_rts' = <<rts, dtr>> /\ UNCHANGED ser_conf)
        /\ UNCHANGED <<timeout, ctrl_index, attached>>

set_dtr_rts_bits_swapped(dtr, rts) ==
    LET val_dtr == IF dtr THEN 2 ELSE 0
        val_rts == IF rts THEN 1 ELSE 0
    IN  /\ cdc_acm_ctrl_set("set_dtr_rts", Arg("lines", <<dtr, rts>>), SET_CONTROL_LINE_STATE,
                            val_dtr + val_rts, << >>,
                            dtr_rts' = <<dtr, rts>> /\ UNCHANGED ser_conf)
        /\ UNCHANGED <<timeout, ctrl_index, attached>>

set_dtr_rts(dtr, rts) ==
    LET val_dtr == IF dtr THEN 1 ELSE 0
        val_rts == IF rts THEN 2 ELSE 0
    IN  /\ cdc_acm_ctrl_set("set_dtr_rts", Arg("lines", <<dtr, rts>>), SET_CONTROL_LINE_STATE,
                            val_dtr + val_rts, << >>,
                            dtr_rts' = <<dtr, rts>> /\ UNCHANGED ser_conf)
        /\ UNCHANGED <<timeout, ctrl_index, attached>>

set_break_state_one(val) ==
    /\ cdc_acm_ctrl_set("set_break_state", Arg("val", val), SEND_BREAK,
                        IF val THEN 1 ELSE 0, << >>,
                        UNCHANGED <<ser_conf, dtr_rts>>)
    /\ UNCHANGED <<timeout, ctrl_index, attached>>

set_break_state(val) ==
    /\ cdc_acm_ctrl_set("set_break_state", Arg("val", val), SEND_BREAK,
                        IF val THEN 65535 ELSE 0, << >>,
                        UNCHANGED <<ser_conf, dtr_rts>>)
    /\ UNCHANGED <<timeout, ctrl_index, attached>>

set_timeout_doubled(t) ==
    /\ timeout' = IF checked_mul(t, 2).some THEN checked_mul(t, 2).val ELSE t
    /\ last' = Call("set_timeout", Arg("dur", t), "Ok", 0, NoXfer, "none", "none")
    /\ UNCHANGED <<is_connected, ser_conf, dtr_rts, ctrl_index, attached>>

\* CdcSerial::set_timeout, and SerialPort::set_timeout which does the same
set_timeout(t) ==
    /\ timeout' = t
    /\ last' = Call("set_timeout", Arg("dur", t), "Ok", 0, NoXfer, "none", "none")
    /\ UNCHANGED <<is_connected, ser_conf, dtr_rts, ctrl_index, attached>>

\* From<serialport::DataBits>, From<serialport::Parity> and
\* From<serialport::StopBits>: the values of the serialport crate ("sp:...")
\* become the values of this crate
from_serialport(value) ==
    CASE value = "sp:Five" -> "Five" [] value = "sp:Six" -> "Six"
      [] value = "sp:Seven" -> "Seven" [] value = "sp:Eight" -> "Eight"
      [] value = "sp:None" -> "None" [] value = "sp:Odd" -> "Odd"
      [] value = "sp:Even" -> "Even"
      [] value = "sp:One" -> "One" [] value = "sp:Two" -> "Two"

\* SerialPort for CdcSerial, the single-field setters: the cached config, or
\* the default when none is cached, with one field replaced, is handed to
\* CdcSerial::set_config (whose request and cache update follow)
set_baud_rate_from_default(baud_rate) ==
    LET conf == [DefaultConfig EXCEPT !.baud_rate = baud_rate]
    IN  /\ cdc_acm_ctrl_set("set_baud_rate",
                            Arg("conf", [NoConf EXCEPT !.baud_rate = baud_rate]),
                            SET_LINE_CODING, 0, line_coding(conf),
                            ser_conf' = conf /\ UNCHANGED dtr_rts)
        /\ UNCHANGED <<timeout, ctrl_index, attached>>

set_baud_rate(baud_rate) ==
    LET conf == [IF ser_conf = NoConf THEN DefaultConfig ELSE ser_conf
                   EXCEPT !.baud_rate = baud_rate]
    IN  /\ cdc_acm_ctrl_set("set_baud_rate",
                            Arg("conf", [NoConf EXCEPT !.baud_rate = baud_rate]),
                            SET_LINE_CODING, 0, line_coding(conf),
                            ser_conf' = conf /\ UNCHANGED dtr_rts)
        /\ UNCHANGED <<timeout, ctrl_index, attached>>

set_data_bits(data_bits) ==
    LET conf == [IF ser_conf = NoConf THEN DefaultConfig ELSE ser_conf
                   EXCEPT !.data_bits = from_serialport(data_bits)]
    IN  /\ cdc_acm_ctrl_set("set_data_bits",
                            Arg("conf", [NoConf EXCEPT !.data_bits = data_bits]),
                            SET_LINE_CODING, 0, line_coding(conf),
                            ser_conf' = conf /\ UNCHANGED dtr_rts)
        /\ UNCHANGED <<timeout, ctrl_index, attached>>

set_parity(parity) ==
    LET conf == [IF ser_conf = NoConf THEN DefaultConfig ELSE ser_conf
                   EXCEPT !.parity = from_serialport(parity)]
    IN  /\ cdc_acm_ctrl_set("set_parity",
                            Arg("conf", [NoConf EXCEPT !.parity = parity]),
                            SET_LINE_CODING, 0, line_coding(conf),
                            ser_conf' = conf /\ UNCHANGED dtr_rts)
        /\ UNCHANGED <<timeout, ctrl_index, attached>>

set_stop_bits(stop_bits) ==
    LET conf == [IF ser_conf = NoConf THEN DefaultConfig ELSE ser_conf
                   EXCEPT !.stop_bits = from_serialport(stop_bits)]
    IN  /\ cdc_acm_ctrl_set("set_stop_bits",
                            Arg("conf", [NoConf EXCEPT !.stop_bits = stop_bits]),
                            SET_LINE_CODING, 0, line_coding(conf),
                            ser_conf' = conf /\ UNCHANGED dtr_rts)
        /\ UNCHANGED <<timeout, ctrl_index, attached>>

\* SerialPort::write_request_to_send and write_data_terminal_ready: the other
\* line is taken from the cached pair and both go to CdcSerial::set_dtr_rts
write_request_to_send_dtr_cleared(value) ==
    LET dtr == FALSE
        rts == value
    IN  /\ cdc_acm_ctrl_set("write_request_to_send", Arg("val", value),
                            SET_CONTROL_LINE_STATE,
                            (IF dtr THEN 1 ELSE 0) + (IF rts THEN 2 ELSE 0), << >>,
                            dtr_rts' = <<dtr, rts>> /\ UNCHANGED ser_conf)
        /\ UNCHANGED <<timeout, ctrl_index, attached>>

write_request_to_send(value) ==
    LET dtr == dtr_rts[1]
        rts == value
    IN  /\ cdc_acm_ctrl_set("write_request_to_send", Arg("val", value),
                            SET_CONTROL_LINE_STATE,
                            (IF dtr THEN 1 ELSE 0) + (IF rts THEN 2 ELSE 0), << >>,
                            dtr_rts' = <<dtr, rts>> /\ UNCHANGED ser_conf)
        /\ UNCHANGED <<timeout, ctrl_index, attached>>

write_data_terminal_ready(value) ==
    LET rts == dtr_rts[2]
        dtr == value
    IN  /\ cdc_acm_ctrl_set("write_data_terminal_ready", Arg("val", value),
                            SET_CONTROL_LINE_STATE,
                            (IF dtr THEN 1 ELSE 0) + (IF rts THEN 2 ELSE 0), << >>,
                            dtr_rts' = <<dtr, rts>> /\ UNCHANGED ser_conf)
        /\ UNCHANGED <<timeout, ctrl_index, attached>>
\* the device is unplugged, or plugged in again under the same path
Detach ==
    /\ attached
    /\ attached' = FALSE
    /\ UNCHANGED <<is_connected, timeout, ser_conf, dtr_rts, ctrl_index, last>>

Attach ==
    /\ ~attached
    /\ attached' = TRUE
    /\ UNCHANGED <<is_connected, timeout, ser_conf, dtr_rts, ctrl_index, last>>

(***************************************************************************)
(* The transfer engine: SyncReader and SyncWriter                          *)
(*                                                                         *)
(* The queue is the transport's: the wrappers see it only through submit,  *)
(* next_complete, cancel_all, pending and clear_halt.  The transport       *)
(* completes a pending request at any time; a request whose cancellation   *)
(* was requested may still complete with any status, and a Cancelled       *)
(* completion carries the bytes moved before the cancellation took effect. *)
(***************************************************************************)
Dirs == {"in", "out"}

NoBuf   == "None"                           \* self.buf is None
NewBuf  == "Vec::new()"                     \* a fresh empty Vec
UsedBuf == "comp.data"                      \* the Vec a completion handed back
NoComp == [status |-> "none", n |-> 0]      \* nothing completed yet


\* the bytes the device sends: the i-th byte of a transfer is i
DevData(n) == [i \in 1..n |-> i]
\* what the caller's buffer holds before a read
OldBuf(len) == [i \in 1..len |-> 100 + i]

\* what a call returned: result kind, byte count, whether cancel_all was
\* called, how often clear_halt was called, the status of the completion
\* it classified ("none" when it took none) and whether its clear_halt went
\* through (TRUE when it called none); Running until it returns
Ret(res, n, cancelled, halts, status) ==
    [res |-> res, n |-> n, cancelled |-> cancelled, halts |-> halts, status |-> status,
     halt_ok |-> TRUE]
Running == Ret("running", 0, FALSE, 0, "none")

\* the calls on the queue counted for the call of direction d
counted(d, submits, cancels) ==
    q_calls' = [q_calls EXCEPT ![d] = [submit |-> submits, cancel_all |-> cancels]]

\* Queue::cancel_all, counted
cancel_all(d) == counted(d, q_calls[d].submit, q_calls[d].cancel_all + 1)

\* Queue::clear_halt may fail or go through, when it is called at all
clear_halt(halts) == IF halts > 0 THEN BOOLEAN ELSE {TRUE}

\* jni_min_helper::block_for_timeout(fut, timeout) can yield None: a zero
\* timeout is no deadline
block_for_timeout_expires_always(tmo) == TRUE
block_for_timeout_expires(tmo) == tmo # 0

\* Queue::submit
submit_shared(d) ==
    /\ q_pending' = [q_pending EXCEPT ![d] = @ + 1]
    /\ q_cancel'  = [x \in Dirs |-> FALSE]
    /\ q_comp'    = [x \in Dirs |-> NoComp]
submit(d) ==
    /\ q_pending' = [q_pending EXCEPT ![d] = @ + 1]
    /\ q_cancel'  = [q_cancel EXCEPT ![d] = FALSE]
    /\ q_comp'    = [q_comp EXCEPT ![d] = NoComp]

\* next_complete has yielded: the request leaves the queue
take_completion(d) ==
    /\ q_pending' = [q_pending EXCEPT ![d] = @ - 1]
    /\ q_cancel'  = [q_cancel EXCEPT ![d] = FALSE]
    /\ q_comp'    = [q_comp EXCEPT ![d] = NoComp]

\* Queue::pending() right after cancel_all: the pending request is counted,
\* unless it completed together with the deadline and has left the queue
pending_reports(d) ==
    IF q_comp[d] # NoComp THEN {0, q_pending[d]} ELSE {q_pending[d]}

\* the transport completes the pending request
transport_complete(d) ==
    /\ q_pending[d] > 0
    /\ q_comp[d] = NoComp
    /\ \E st \in {"Ok", "Disconnected", "Stall", "Fault"}
                     \cup (IF q_cancel[d] THEN {"Cancelled"} ELSE {}),
          n \in 0..req[d].len :
         q_comp' = [q_comp EXCEPT ![d] = [status |-> st, n |-> n]]
    /\ UNCHANGED <<rw_pc, slot, q_pending, q_cancel, req, cbuf, q_calls, ret>>

\* ---------------------------- SyncReader ---------------------------------

\* buf[..len_reveived].copy_from_slice(&comp.data)
copy_from_slice_shifted(buf, data) ==
    [i \in 1..Len(buf) |-> IF i > Len(buf) - Len(data) THEN data[i - (Len(buf) - Len(data))]
                           ELSE buf[i]]
copy_from_slice(buf, data) ==
    [i \in 1..Len(buf) |-> IF i <= Len(data) THEN data[i] ELSE buf[i]]

\* match comp.status of SyncReader::read: result kind, count, copy, clear_halt calls
read_result_drop_partial(status, n) ==
    CASE status = "Ok"           -> [res |-> "Ok", n |-> n, copy |-> TRUE, halts |-> 0]
      [] status = "Cancelled"    -> [res |-> "TimedOut", n |-> 0, copy |-> FALSE, halts |-> 0]
      [] status = "Disconnected" -> [res |-> "NotConnected", n |-> 0, copy |-> FALSE, halts |-> 0]
      [] status = "Stall"        -> [res |-> "OtherStall", n |-> 0, copy |-> FALSE, halts |-> 1]
      [] OTHER                   -> [res |-> "OtherError", n |-> 0, copy |-> FALSE, halts |-> 0]
read_result(status, n) ==
    CASE status = "Ok"           -> [res |-> "Ok", n |-> n, copy |-> TRUE, halts |-> 0]
      [] status = "Cancelled"    -> IF n > 0
                                    THEN [res |-> "Ok", n |-> n, copy |-> TRUE, halts |-> 0]
                                    ELSE [res |-> "TimedOut", n |-> 0, copy |-> FALSE, halts |-> 0]
      [] status = "Disconnected" -> [res |-> "NotConnected", n |-> 0, copy |-> FALSE, halts |-> 0]
      [] status = "Stall"        -> [res |-> "OtherStall", n |-> 0, copy |-> FALSE, halts |-> 1]
      [] OTHER                   -> [res |-> "OtherError", n |-> 0, copy |-> FALSE, halts |-> 0]

\* SyncReader::read up to the wait: the empty-buffer return, or take and submit
read_call_no_shortcut(len, tmo) ==
    /\ rw_pc["in"] = "idle"
    /\ req' = [req EXCEPT !["in"] = [len |-> len, tmo |-> tmo]]
    /\ cbuf' = OldBuf(len)
    /\ slot' = [slot EXCEPT !["in"] = NoBuf]
    /\ submit("in")
    /\ counted("in", 1, 0)
    /\ rw_pc' = [rw_pc EXCEPT !["in"] = "wait"]
    /\ ret' = [ret EXCEPT !["in"] = Running]
read_call_double_submit(len, tmo) ==
    /\ rw_pc["in"] = "idle"
    /\ req' = [req EXCEPT !["in"] = [len |-> len, tmo |-> tmo]]
    /\ cbuf' = OldBuf(len)
    /\ IF len = 0
       THEN /\ ret' = [ret EXCEPT !["in"] =
                         Ret("Ok", 0, FALSE, 0, "none")]
            /\ counted("in", 0, 0)
            /\ UNCHANGED <<rw_pc, slot, q_pending, q_cancel, q_comp>>
       ELSE /\ slot' = [slot EXCEPT !["in"] = NoBuf]
            /\ q_pending' = [q_pending EXCEPT !["in"] = @ + 2]
            /\ q_cancel'  = [q_cancel EXCEPT !["in"] = FALSE]
            /\ q_comp'    = [q_comp EXCEPT !["in"] = NoComp]
            /\ counted("in", 2, 0)
            /\ rw_pc' = [rw_pc EXCEPT !["in"] = "wait"]
            /\ ret' = [ret EXCEPT !["in"] = Running]
read_call(len, tmo) ==
    /\ rw_pc["in"] = "idle"
    /\ req' = [req EXCEPT !["in"] = [len |-> len, tmo |-> tmo]]
    /\ cbuf' = OldBuf(len)
    /\ IF len = 0
       THEN /\ ret' = [ret EXCEPT !["in"] =
                         Ret("Ok", 0, FALSE, 0, "none")]
            /\ counted("in", 0, 0)
            /\ UNCHANGED <<rw_pc, slot, q_pending, q_cancel, q_comp>>
       ELSE IF slot["in"] = NoBuf
       THEN \* self.buf.take().unwrap() on None
            /\ rw_pc' = [rw_pc EXCEPT !["in"] = "panic"]
            /\ counted("in", 0, 0)
            /\ UNCHANGED <<slot, q_pending, q_cancel, q_comp, ret>>
       ELSE /\ slot' = [slot EXCEPT !["in"] = NoBuf]
            /\ submit("in")
            /\ counted("in", 1, 0)
            /\ rw_pc' = [rw_pc EXCEPT !["in"] = "wait"]
            /\ ret' = [ret EXCEPT !["in"] = Running]

\* the classification of the completion and the return of SyncReader::read
read_finish_early_return(cancelled) ==
    LET comp == q_comp["in"]
        r    == read_result(comp.status, comp.n)
    IN  /\ cbuf' = IF r.copy THEN copy_from_slice(cbuf, DevData(comp.n)) ELSE cbuf
        /\ \E h \in clear_halt(r.halts) :
              ret' = [ret EXCEPT !["in"] =
                        [Ret(r.res, r.n, cancelled, r.halts, comp.status) EXCEPT !.halt_ok = h]]
        /\ slot' = IF r.res = "Ok" THEN [slot EXCEPT !["in"] = UsedBuf] ELSE slot
        /\ take_completion("in")
        /\ rw_pc' = [rw_pc EXCEPT !["in"] = "idle"]
        /\ UNCHANGED <<req, q_calls>>
read_finish_halt_checked(cancelled) ==
    LET comp == q_comp["in"]
        r    == read_result(comp.status, comp.n)
    IN  /\ cbuf' = IF r.copy THEN copy_from_slice(cbuf, DevData(comp.n)) ELSE cbuf
        /\ \E h \in clear_halt(r.halts) :
              IF h
              THEN /\ ret' = [ret EXCEPT !["in"] =
                                Ret(r.res, r.n, cancelled, r.halts, comp.status)]
                   /\ slot' = [slot EXCEPT !["in"] = UsedBuf]
              ELSE /\ ret' = [ret EXCEPT !["in"] =
                                [Ret("OtherError", 0, cancelled, r.halts, comp.status)
                                   EXCEPT !.halt_ok = FALSE]]
                   /\ UNCHANGED slot
        /\ take_completion("in")
        /\ rw_pc' = [rw_pc EXCEPT !["in"] = "idle"]
        /\ UNCHANGED <<req, q_calls>>
read_finish(cancelled) ==
    LET comp == q_comp["in"]
        r    == read_result(comp.status, comp.n)
    IN  /\ cbuf' = IF r.copy THEN copy_from_slice(cbuf, DevData(comp.n)) ELSE cbuf
        /\ \E h \in clear_halt(r.halts) :
              ret' = [ret EXCEPT !["in"] =
                        [Ret(r.res, r.n, cancelled, r.halts, comp.status) EXCEPT !.halt_ok = h]]
        /\ slot' = [slot EXCEPT !["in"] = UsedBuf]
        /\ take_completion("in")
        /\ rw_pc' = [rw_pc EXCEPT !["in"] = "idle"]
        /\ UNCHANGED <<req, q_calls>>

\* block_for_timeout yields the completion before the deadline
read_complete ==
    /\ rw_pc["in"] = "wait"
    /\ q_comp["in"] # NoComp
    /\ read_finish(FALSE)

\* nothing pending after cancel_all: an empty buffer is put back, the call fails
read_unavailable_keep_waiting ==
    /\ q_pending' = [q_pending EXCEPT !["in"] = 0]
    /\ q_comp' = [q_comp EXCEPT !["in"] = NoComp]
    /\ q_cancel' = [q_cancel EXCEPT !["in"] = FALSE]
    /\ rw_pc' = [rw_pc EXCEPT !["in"] = "cancelwait"]
    /\ cancel_all("in")
    /\ UNCHANGED <<slot, ret, req, cbuf>>
read_unavailable ==
    /\ q_pending' = [q_pending EXCEPT !["in"] = 0]
    /\ q_comp' = [q_comp EXCEPT !["in"] = NoComp]
    /\ q_cancel' = [q_cancel EXCEPT !["in"] = FALSE]
    /\ slot' = [slot EXCEPT !["in"] = NewBuf]
    /\ ret' = [ret EXCEPT !["in"] = Ret("OtherUnavailable", 0, TRUE, 0, "none")]
    /\ rw_pc' = [rw_pc EXCEPT !["in"] = "idle"]
    /\ cancel_all("in")
    /\ UNCHANGED <<req, cbuf>>

\* block_for_timeout yields None: cancel_all, then pending() decides
read_deadline_no_wait ==
    /\ rw_pc["in"] = "wait"
    /\ block_for_timeout_expires(req["in"].tmo)
    /\ q_cancel' = [q_cancel EXCEPT !["in"] = TRUE]
    /\ slot' = [slot EXCEPT !["in"] = UsedBuf]
    /\ ret' = [ret EXCEPT !["in"] = Ret("TimedOut", 0, TRUE, 0, "none")]
    /\ rw_pc' = [rw_pc EXCEPT !["in"] = "idle"]
    /\ cancel_all("in")
    /\ UNCHANGED <<q_pending, q_comp, req, cbuf>>
read_deadline_no_cancel ==
    /\ rw_pc["in"] = "wait"
    /\ block_for_timeout_expires(req["in"].tmo)
    /\ rw_pc' = [rw_pc EXCEPT !["in"] = "cancelwait"]
    /\ UNCHANGED <<slot, q_pending, q_cancel, q_comp, req, cbuf, q_calls, ret>>
read_deadline ==
    /\ rw_pc["in"] = "wait"
    /\ block_for_timeout_expires(req["in"].tmo)
    /\ \E rep \in pending_reports("in") :
         IF rep = 0
         THEN read_unavailable
         ELSE /\ q_cancel' = [q_cancel EXCEPT !["in"] = TRUE]
              /\ cancel_all("in")
              /\ rw_pc' = [rw_pc EXCEPT !["in"] = "cancelwait"]
              /\ UNCHANGED <<slot, q_pending, q_comp, req, cbuf, ret>>

\* block_on(next_complete) after the cancellation yields
read_cancel_complete ==
    /\ rw_pc["in"] = "cancelwait"
    /\ q_comp["in"] # NoComp
    /\ read_finish(TRUE)

\* ---------------------------- SyncWriter ---------------------------------

\* match comp.status of SyncWriter::write
write_result(status, n) ==
    CASE status = "Ok"           -> [res |-> "Ok", n |-> n, halts |-> 0]
      [] status = "Cancelled"    -> IF n > 0
                                    THEN [res |-> "Ok", n |-> n, halts |-> 0]
                                    ELSE [res |-> "TimedOut", n |-> 0, halts |-> 0]
      [] status = "Disconnected" -> [res |-> "NotConnected", n |-> 0, halts |-> 0]
      [] status = "Stall"        -> [res |-> "OtherStall", n |-> 0, halts |-> 1]
      [] OTHER                   -> [res |-> "OtherError", n |-> 0, halts |-> 0]

write_call(len, tmo) ==
    /\ rw_pc["out"] = "idle"
    /\ req' = [req EXCEPT !["out"] = [len |-> len, tmo |-> tmo]]
    /\ IF len = 0
       THEN /\ ret' = [ret EXCEPT !["out"] =
                         Ret("Ok", 0, FALSE, 0, "none")]
            /\ counted("out", 0, 0)
            /\ UNCHANGED <<rw_pc, slot, q_pending, q_cancel, q_comp>>
       ELSE IF slot["out"] = NoBuf
       THEN /\ rw_pc' = [rw_pc EXCEPT !["out"] = "panic"]
            /\ counted("out", 0, 0)
            /\ UNCHANGED <<slot, q_pending, q_cancel, q_comp, ret>>
       ELSE /\ slot' = [slot EXCEPT !["out"] = NoBuf]
            /\ submit("out")
            /\ counted("out", 1, 0)
            /\ rw_pc' = [rw_pc EXCEPT !["out"] = "wait"]
            /\ ret' = [ret EXCEPT !["out"] = Running]
    /\ UNCHANGED cbuf

write_finish(cancelled) ==
    LET comp == q_comp["out"]
        r    == write_result(comp.status, comp.n)
    IN  /\ \E h \in clear_halt(r.halts) :
              ret' = [ret EXCEPT !["out"] =
                        [Ret(r.res, r.n, cancelled, r.halts, comp.status) EXCEPT !.halt_ok = h]]
        /\ slot' = [slot EXCEPT !["out"] = UsedBuf]
        /\ take_completion("out")
        /\ rw_pc' = [rw_pc EXCEPT !["out"] = "idle"]
        /\ UNCHANGED <<req, cbuf, q_calls>>

write_complete ==
    /\ rw_pc["out"] = "wait"
    /\ q_comp["out"] # NoComp
    /\ write_finish(FALSE)

write_unavailable ==
    /\ q_pending' = [q_pending EXCEPT !["out"] = 0]
    /\ q_comp' = [q_comp EXCEPT !["out"] = NoComp]
    /\ q_cancel' = [q_cancel EXCEPT !["out"] = FALSE]
    /\ slot' = [slot EXCEPT !["out"] = NewBuf]
    /\ ret' = [ret EXCEPT !["out"] = Ret("OtherUnavailable", 0, TRUE, 0, "none")]
    /\ rw_pc' = [rw_pc EXCEPT !["out"] = "idle"]
    /\ cancel_all("out")
    /\ UNCHANGED <<req, cbuf>>

write_deadline ==
    /\ rw_pc["out"] = "wait"
    /\ block_for_timeout_expires(req["out"].tmo)
    /\ \E rep \in pending_reports("out") :
         IF rep = 0
         THEN write_unavailable
         ELSE /\ q_cancel' = [q_cancel EXCEPT !["out"] = TRUE]
              /\ cancel_all("out")
              /\ rw_pc' = [rw_pc EXCEPT !["out"] = "cancelwait"]
              /\ UNCHANGED <<slot, q_pending, q_comp, req, cbuf, ret>>

write_cancel_complete ==
    /\ rw_pc["out"] = "cancelwait"
    /\ q_comp["out"] # NoComp
    /\ write_finish(TRUE)

EngInit ==
    /\ rw_pc = [d \in Dirs |-> "idle"]
    /\ slot = [d \in Dirs |-> NewBuf]
    /\ q_pending = [d \in Dirs |-> 0]
    /\ q_cancel = [d \in Dirs |-> FALSE]
    /\ q_comp = [d \in Dirs |-> NoComp]
    /\ req = [d \in Dirs |-> [len |-> 0, tmo |-> 0]]
    /\ cbuf = << >>
    /\ q_calls = [d \in Dirs |-> [submit |-> 0, cancel_all |-> 0]]
    /\ ret = [d \in Dirs |-> Ret("none", 0, FALSE, 0, "none")]

(***************************************************************************)
(* Devices, their interfaces and endpoints; probe, build and drop          *)
(***************************************************************************)
USB_INTR_CLASS_COMM     == 2
USB_INTR_SUBCLASS_ACM   == 2
USB_INTR_CLASS_CDC_DATA == 10

EndpointInfo(address, transfer_type, direction) ==
    [address |-> address, transfer_type |-> transfer_type, direction |-> direction]
InterfaceInfo(number, alt, class, sub_class, endpoints) ==
    [interface_number |-> number, alternate_setting |-> alt, class |-> class,
     sub_class |-> sub_class, endpoints |-> endpoints]

\* Option::None of Option<EndpointInfo> and of Option<InterfaceInfo>
NoEndp == EndpointInfo(0, "-", "-")
NoIntr == InterfaceInfo(0, 0, 0, 0, << >>)

\* the interfaces the devices below are made of, as UsbDevice.getInterface
\* lists them, one entry for every alternate setting: a communication
\* interface with the abstract control model under each number, one with
\* another subclass, and three alternate settings of one data interface: one
\* without endpoints, one with bulk endpoints in both directions among
\* others, one with bulk OUT endpoints only
CommIntr(n) == InterfaceInfo(n, 0, USB_INTR_CLASS_COMM, USB_INTR_SUBCLASS_ACM,
                             << EndpointInfo(131, "Interrupt", "In") >>)
CommOther   == InterfaceInfo(0, 0, USB_INTR_CLASS_COMM, 6,
                             << EndpointInfo(131, "Interrupt", "In") >>)
DataNone    == InterfaceInfo(MaxIntf + 1, 0, USB_INTR_CLASS_CDC_DATA, 0, << >>)
DataPair    == InterfaceInfo(MaxIntf + 1, 1, USB_INTR_CLASS_CDC_DATA, 0,
                             << EndpointInfo(132, "Interrupt", "In"),
                                EndpointInfo(129, "Bulk", "In"),
                                EndpointInfo(2, "Bulk", "Out"),
                                EndpointInfo(133, "Bulk", "In") >>)
DataOut     == InterfaceInfo(MaxIntf + 1, 2, USB_INTR_CLASS_CDC_DATA, 0,
                             << EndpointInfo(2, "Bulk", "Out"),
                                EndpointInfo(3, "Bulk", "Out") >>)

\* a DeviceInfo: what get_interfaces() yields, or that it fails
DeviceInfo(intrs, readable) == [intrs |-> intrs, readable |-> readable]
RECURSIVE SeqsUpTo(_, _)
SeqsUpTo(S, n) ==
    IF n = 0 THEN {<< >>}
    ELSE LET shorter == SeqsUpTo(S, n - 1)
         IN  shorter \cup {Append(s, x) : s \in {t \in shorter : Len(t) = n - 1}, x \in S}
AcmDevice(n) == DeviceInfo(<< CommIntr(n), DataPair >>, TRUE)
DeviceUniverse ==
    {DeviceInfo(s, TRUE) :
        s \in SeqsUpTo({CommIntr(n) : n \in 0..MaxIntf}
                         \cup {CommOther, DataNone, DataPair, DataOut}, MaxIntrs)}
        \cup {DeviceInfo(<< CommIntr(0), DataPair >>, FALSE)}

\* Option::get_or_insert: the value it holds afterwards
insert(opt, none, x) == x
get_or_insert(opt, none, x) == IF opt = none THEN x ELSE opt

\* the loop of cdc_acm_intrs over the interface list
RECURSIVE scan_intrs(_, _, _)
scan_intrs(vec_intr, intr_comm, intr_data) ==
    IF vec_intr = << >> THEN [intr_comm |-> intr_comm, intr_data |-> intr_data]
    ELSE LET intr == Head(vec_intr) IN
         IF intr.class = USB_INTR_CLASS_COMM /\ intr.sub_class = USB_INTR_SUBCLASS_ACM
         THEN scan_intrs(Tail(vec_intr), get_or_insert(intr_comm, NoIntr, intr), intr_data)
         ELSE IF intr.class = USB_INTR_CLASS_CDC_DATA
         THEN scan_intrs(Tail(vec_intr), intr_comm, get_or_insert(intr_data, NoIntr, intr))
         ELSE scan_intrs(Tail(vec_intr), intr_comm, intr_data)

\* CdcSerial::cdc_acm_intrs: Some((intr_comm, intr_data)) or None
NoIntrs == [some |-> FALSE, intr_comm |-> NoIntr, intr_data |-> NoIntr]
cdc_acm_intrs(dev_info) ==
    IF ~dev_info.readable THEN NoIntrs
    ELSE LET r == scan_intrs(dev_info.intrs, NoIntr, NoIntr) IN
         IF r.intr_comm # NoIntr /\ r.intr_data # NoIntr
         THEN [some |-> TRUE, intr_comm |-> r.intr_comm, intr_data |-> r.intr_data]
         ELSE NoIntrs

\* the loop of build over the bulk endpoints of the data interface
RECURSIVE scan_endps(_, _, _)
scan_endps(vec_endp, endp_r, endp_w) ==
    IF vec_endp = << >> THEN [endp_r |-> endp_r, endp_w |-> endp_w]
    ELSE LET endp == Head(vec_endp) IN
         IF endp.transfer_type # "Bulk" THEN scan_endps(Tail(vec_endp), endp_r, endp_w)
         ELSE IF endp.direction = "In"
         THEN scan_endps(Tail(vec_endp), get_or_insert(endp_r, NoEndp, endp), endp_w)
         ELSE scan_endps(Tail(vec_endp), endp_r, get_or_insert(endp_w, NoEndp, endp))

\* what the platform does during build: whether the endpoints of the data
\* interface can be read, what open_device() yields ("Access" when the
\* permission is not granted), what the two claimInterface calls return
NoEnv == [endps_ok |-> TRUE, open |-> "Ok", claim_comm |-> TRUE, claim_data |-> TRUE]

\* what build returns: the kind of the io::Error or "Ok", and the interfaces
\* and endpoints it had chosen by then, the fields of the session when "Ok"
Outcome(res, intrs, endps) ==
    [res |-> res, intr_comm |-> intrs.intr_comm, intr_data |-> intrs.intr_data,
     endp_read |-> endps.endp_r, endp_write |-> endps.endp_w]
NoEndps == [endp_r |-> NoEndp, endp_w |-> NoEndp]

build_outcome_open_first(dev_info, env) ==
    LET intrs == cdc_acm_intrs(dev_info)
        endps == scan_endps(intrs.intr_data.endpoints, NoEndp, NoEndp)
    IN  IF ~intrs.some THEN Outcome("InvalidInput", NoIntrs, NoEndps)
        ELSE IF env.open # "Ok" THEN Outcome("PermissionDenied", intrs, NoEndps)
        ELSE IF ~env.endps_ok THEN Outcome("Other", intrs, NoEndps)
        ELSE IF endps.endp_r = NoEndp \/ endps.endp_w = NoEndp
        THEN Outcome("NotFound", intrs, NoEndps)
        ELSE Outcome("Ok", intrs, endps)

\* CdcSerial::build, its checks in their order; the results of the two
\* claim_interface calls are dropped (let _ = ...)
build_outcome(dev_info, env) ==
    LET intrs == cdc_acm_intrs(dev_info)
        endps == scan_endps(intrs.intr_data.endpoints, NoEndp, NoEndp)
    IN  IF ~intrs.some THEN Outcome("InvalidInput", NoIntrs, NoEndps)
        ELSE IF ~env.endps_ok THEN Outcome("Other", intrs, NoEndps)
        ELSE IF endps.endp_r = NoEndp \/ endps.endp_w = NoEndp
        THEN Outcome("NotFound", intrs, NoEndps)
        ELSE IF env.open # "Ok" THEN Outcome("PermissionDenied", intrs, endps)
        ELSE Outcome("Ok", intrs, endps)

\* one call on the platform for the device: openDevice, claimInterface,
\* releaseInterface or close, the interface it names, and whether it succeeded
PlatformCall(call, intr, ok) == [call |-> call, intr |-> intr, ok |-> ok]

\* the platform calls of a build that got as far as open_device(): none when
\* the permission is missing (UsbManager::open_device returns before openDevice)
build_calls_handle_kept(o, env) ==
    IF o.res = "Ok"
    THEN << PlatformCall("openDevice", NoIntr, TRUE),
            PlatformCall("claimInterface", o.intr_comm, env.claim_comm),
            PlatformCall("claimInterface", o.intr_data, env.claim_data) >>
    ELSE IF o.res = "PermissionDenied" /\ env.open = "Other"
    THEN << PlatformCall("openDevice", NoIntr, TRUE) >>
    ELSE << >>
build_calls(o, env) ==
    IF o.res = "Ok"
    THEN << PlatformCall("openDevice", NoIntr, TRUE),
            PlatformCall("claimInterface", o.intr_comm, env.claim_comm),
            PlatformCall("claimInterface", o.intr_data, env.claim_data) >>
    ELSE IF o.res = "PermissionDenied" /\ env.open = "Other"
    THEN << PlatformCall("openDevice", NoIntr, FALSE) >>
    ELSE << >>

NoBuilt == [done |-> FALSE, dropped |-> FALSE, env |-> NoEnv]
              @@ Outcome("-", NoIntrs, NoEndps)

\* CdcSerial::build(dev_info, timeout) on the first enumerated device
build(t) ==
    /\ ~built.done /\ devices # << >>
    /\ \E env \in [endps_ok : BOOLEAN, open : {"Ok", "Access", "Other"},
                    claim_comm : BOOLEAN, claim_data : BOOLEAN] :
         LET o == build_outcome(devices[1], env) IN
         /\ built' = [done |-> TRUE, dropped |-> FALSE, env |-> env] @@ o
         /\ handle_log' = build_calls(o, env)
         /\ IF o.res = "Ok"
            THEN /\ is_connected' = TRUE
                 /\ timeout' = t
                 /\ ser_conf' = NoConf
                 /\ dtr_rts' = <<FALSE, FALSE>>
                 /\ ctrl_index' = o.intr_comm.interface_number
                 /\ last' = BuildCall
            ELSE UNCHANGED <<is_connected, timeout, ser_conf, dtr_rts, ctrl_index, last>>
    /\ UNCHANGED <<attached, nc_returned, hist_conf, hist_lines, devices, found>>

drop_until_failure ==
    /\ built.done /\ built.res = "Ok" /\ ~built.dropped
    /\ \E rel_comm \in BOOLEAN, rel_data \in BOOLEAN :
         handle_log' = handle_log
            \o << PlatformCall("releaseInterface", built.intr_comm, rel_comm) >>
            \o (IF rel_comm
                THEN << PlatformCall("releaseInterface", built.intr_data, rel_data),
                        PlatformCall("close", NoIntr, TRUE) >>
                ELSE << >>)
    /\ built' = [built EXCEPT !.dropped = TRUE]
    /\ UNCHANGED <<sessVars, devices, found>>

\* impl Drop for CdcSerial: the results of both release_interface calls are
\* dropped (let _ = ...), close() returns nothing
drop ==
    /\ built.done /\ built.res = "Ok" /\ ~built.dropped
    /\ \E rel_comm \in BOOLEAN, rel_data \in BOOLEAN :
         handle_log' = handle_log
            \o << PlatformCall("releaseInterface", built.intr_comm, rel_comm),
                  PlatformCall("releaseInterface", built.intr_data, rel_data),
                  PlatformCall("close", NoIntr, TRUE) >>
    /\ built' = [built EXCEPT !.dropped = TRUE]
    /\ UNCHANGED <<sessVars, devices, found>>

\* the loop of probe over the enumerated devices
filter_all(vec_dev) == vec_dev
RECURSIVE filter_found(_)
filter_found(vec_dev) ==
    IF vec_dev = << >> THEN << >>
    ELSE IF cdc_acm_intrs(Head(vec_dev)).some
    THEN << Head(vec_dev) >> \o filter_found(Tail(vec_dev))
    ELSE filter_found(Tail(vec_dev))

NoFound == [done |-> FALSE, enum |-> "-", res |-> "-", list |-> << >>]

\* CdcSerial::probe; list_res is what usb::list_devices() yields: the
\* devices, Error::NotSupported or another error
probe(list_res) ==
    /\ found' = IF list_res = "NotSupported"
                THEN [done |-> TRUE, enum |-> list_res, res |-> "Unsupported", list |-> << >>]
                ELSE IF list_res # "Ok"
                THEN [done |-> TRUE, enum |-> list_res, res |-> "Other", list |-> << >>]
                ELSE [done |-> TRUE, enum |-> list_res, res |-> "Ok",
                      list |-> filter_found(devices)]
    /\ UNCHANGED <<sessVars, devices, built, handle_log>>

\* the session of Init was built on AcmDevice(ctrl_index), the permission
\* granted and both interfaces claimed
OpenBuilt ==
    /\ devices = << AcmDevice(ctrl_index) >>
    /\ found = NoFound
    /\ built = [done |-> TRUE, dropped |-> FALSE, env |-> NoEnv]
                 @@ build_outcome(AcmDevice(ctrl_index), NoEnv)
    /\ handle_log = build_calls(build_outcome(AcmDevice(ctrl_index), NoEnv), NoEnv)

(***************************************************************************)
(* The conversions of a SerialConfig, applied to one value                 *)
(***************************************************************************)
NoCfg == [c |-> NoConf, text |-> << >>,
          parsed |-> [done |-> FALSE, ok |-> FALSE, conf |-> NoConf], bytes |-> << >>]

\* c.to_string()
cfg_to_string ==
    /\ cfg.c # NoConf /\ cfg.text = << >>
    /\ cfg' = [cfg EXCEPT !.text = fmt(cfg.c)]

\* SerialConfig::from_str on the text formatted before, or on the text given
\* when there is no SerialConfig to format
cfg_from_str ==
    /\ (cfg.c = NoConf \/ cfg.text # << >>) /\ ~cfg.parsed.done
    /\ cfg' = [cfg EXCEPT !.parsed = [done |-> TRUE, ok |-> from_str(cfg.text).ok,
                                      conf |-> from_str(cfg.text).conf]]

\* let bytes: [u8; 7] = c.into()
cfg_into ==
    /\ cfg.c # NoConf /\ cfg.bytes = << >>
    /\ cfg' = [cfg EXCEPT !.bytes = line_coding(cfg.c)]

Init == SessInit /\ EngInit /\ cfg = NoCfg /\ OpenBuilt

NextConfig ==
    \/ cfg_to_string /\ UNCHANGED <<sessVars, engVars, devices, found, built, handle_log>>
    \/ cfg_from_str /\ UNCHANGED <<sessVars, engVars, devices, found, built, handle_log>>
    \/ cfg_into /\ UNCHANGED <<sessVars, engVars, devices, found, built, handle_log>>

\* one SerialConfig of ConfigUniverse is converted, the session left as built
\* the texts handed to from_str, field by field: well-formed and malformed
\* baud rates (the largest is one above u32::MAX),
\* parities, data bits and stop bits, and fields beyond the fourth
FieldTexts(k) ==
    CASE k = 1 -> { << "9", "6", "0", "0" >>, << >>, << "x" >>, << "-", "1" >>,
                    << " ", "9", " " >>, << "+", "7" >>, << "9", "6", "o" >>,
                    << "4", "2", "9", "4", "9", "6", "7", "2", "9", "6" >> }
      [] k = 2 -> { << "N" >>, << >>, << " " >>, << "X" >>, << "n" >>, << " ", "E", "v" >> }
      [] k = 3 -> { << "8" >>, << "1", "6" >>, << >>, << "9" >>, << "x" >>, << "-", "8" >>,
                    << "0", "7" >>, << "8", "." >> }
      [] k = 4 -> { << "1" >>, << "1", ".", "5" >>, << "2" >>, << >>, << "3" >>, << "x" >>,
                    << "1", ".", "0" >>, << "2", ".", "5" >>, << ".", "5" >>, << "1", "." >>,
                    << " ", "2" >>, << "1", ".", "5", "1" >> }
      [] OTHER -> { << "x" >> }

\* the texts of exactly k fields
RECURSIVE Texts(_)
Texts(k) ==
    IF k = 1 THEN FieldTexts(1)
    ELSE {t \o << "," >> \o f : t \in Texts(k - 1), f \in FieldTexts(k)}

InitParse ==
    /\ SessInit /\ EngInit /\ OpenBuilt
    /\ timeout = DURATION_ZERO /\ ctrl_index = 0
    /\ cfg \in {[NoCfg EXCEPT !.text = t] : t \in UNION {Texts(k) : k \in 1..MaxFields}}

NextParse == cfg_from_str /\ UNCHANGED <<sessVars, engVars, devices, found, built, handle_log>>

\* from_str on one text of up to MaxFields fields
SpecParse == InitParse /\ [][NextParse]_vars

InitConfig ==
    /\ SessInit /\ EngInit /\ OpenBuilt
    /\ timeout = DURATION_ZERO /\ ctrl_index = 0
    /\ cfg \in {[NoCfg EXCEPT !.c = c] : c \in ConfigUniverse}

SpecConfig == InitConfig /\ [][NextConfig]_vars

\* the history of what the calls returned: whether one returned NotConnected,
\* the config the successful set_config calls and single-field setters
\* handed in (a field set alone overrides the default, or the config before)
\* and the line states the successful set_dtr_rts and line writers handed in
Returned ==
    LET ok == last'.res = "Ok"
        a == last'.arg
        base == IF hist_conf = NoConf THEN DefaultConfig ELSE hist_conf
    IN  /\ nc_returned' = (nc_returned \/ last'.res = "NotConnected")
        /\ hist_conf' =
             CASE ok /\ last'.op = "set_config" -> a.conf
               [] ok /\ last'.op = "set_baud_rate" ->
                    [base EXCEPT !.baud_rate = a.conf.baud_rate]
               [] ok /\ last'.op = "set_data_bits" ->
                    [base EXCEPT !.data_bits = from_serialport(a.conf.data_bits)]
               [] ok /\ last'.op = "set_parity" ->
                    [base EXCEPT !.parity = from_serialport(a.conf.parity)]
               [] ok /\ last'.op = "set_stop_bits" ->
                    [base EXCEPT !.stop_bits = from_serialport(a.conf.stop_bits)]
               [] OTHER -> hist_conf
        /\ hist_lines' =
             CASE ok /\ last'.op = "set_dtr_rts" -> a.lines
               [] ok /\ last'.op = "write_data_terminal_ready" -> <<a.val, hist_lines[2]>>
               [] ok /\ last'.op = "write_request_to_send" -> <<hist_lines[1], a.val>>
               [] OTHER -> hist_lines

Next ==
    \/ (\E len \in 0..MaxLen : read(len)) /\ Returned /\ UNCHANGED <<engVars, auxVars>>
    \/ (\E len \in 0..MaxLen : write(len)) /\ Returned /\ UNCHANGED <<engVars, auxVars>>
    \/ (\E conf \in ConfSet : set_config(conf)) /\ Returned /\ UNCHANGED <<engVars, auxVars>>
    \/ (\E dtr \in BOOLEAN, rts \in BOOLEAN : set_dtr_rts(dtr, rts)) /\ Returned /\ UNCHANGED <<engVars, auxVars>>
    \/ (\E val \in BOOLEAN : set_break_state(val)) /\ Returned /\ UNCHANGED <<engVars, auxVars>>
    \/ (\E t \in TimeoutSet : set_timeout(t)) /\ Returned /\ UNCHANGED <<engVars, auxVars>>
    \/ Detach /\ UNCHANGED <<nc_returned, hist_conf, hist_lines, engVars, auxVars>>
    \/ Attach /\ UNCHANGED <<nc_returned, hist_conf, hist_lines, engVars, auxVars>>

Spec == Init /\ [][Next]_vars

\* the same session, set_timeout given every Duration of AllTimeouts and
\* set_config one SerialConfig
NextTimeouts ==
    \/ (\E len \in 0..MaxLen : read(len)) /\ Returned /\ UNCHANGED <<engVars, auxVars>>
    \/ (\E len \in 0..MaxLen : write(len)) /\ Returned /\ UNCHANGED <<engVars, auxVars>>
    \/ set_config(SerialConfig(BaudRates[1], "None", "Eight", "One")) /\ Returned /\ UNCHANGED <<engVars, auxVars>>
    \/ (\E dtr \in BOOLEAN, rts \in BOOLEAN : set_dtr_rts(dtr, rts)) /\ Returned /\ UNCHANGED <<engVars, auxVars>>
    \/ (\E val \in BOOLEAN : set_break_state(val)) /\ Returned /\ UNCHANGED <<engVars, auxVars>>
    \/ (\E t \in AllTimeouts : set_timeout(t)) /\ Returned /\ UNCHANGED <<engVars, auxVars>>
    \/ Detach /\ UNCHANGED <<nc_returned, hist_conf, hist_lines, engVars, auxVars>>
    \/ Attach /\ UNCHANGED <<nc_returned, hist_conf, hist_lines, engVars, auxVars>>

SpecTimeouts == Init /\ [][NextTimeouts]_vars

(***************************************************************************)
(* DeviceHandle (src/usb_conn.rs): the transfers below the session. last   *)
(* records the call: arg.len is the length of the buffer, arg.val the      *)
(* endpoint or the request type handed in                                  *)
(***************************************************************************)
read_bulk_empty_first(endpoint, len, t) ==
    LET a == [Arg("len", len) EXCEPT !.val = endpoint] IN
    /\ IF len = 0
       THEN last' = Call("read_bulk", a, "Ok", 0, NoXfer, "none", "none")
       ELSE IF endpoint.direction # "In"
       THEN last' = Call("read_bulk", a, "BadParam", 0, NoXfer, "none", "none")
       ELSE \E r \in PlatformReturns(len) :
            \E cause \in PlatformCauses(r, as_millis_jint(t)) :
              last' = Call("read_bulk", a, IF r >= 0 THEN "Ok" ELSE "Transfer",
                           IF r >= 0 THEN r ELSE 0,
                           << BulkXfer("bulk_in", len, t) >>, "none", cause)
    /\ UNCHANGED <<is_connected, timeout, ser_conf, dtr_rts, ctrl_index, attached>>

\* DeviceHandle::read_bulk: direction, then the empty buffer, then bulk_transfer
read_bulk(endpoint, len, t) ==
    LET a == [Arg("len", len) EXCEPT !.val = endpoint] IN
    /\ IF endpoint.direction # "In"
       THEN last' = Call("read_bulk", a, "BadParam", 0, NoXfer, "none", "none")
       ELSE IF len = 0
       THEN last' = Call("read_bulk", a, "Ok", 0, NoXfer, "none", "none")
       ELSE \E r \in PlatformReturns(len) :
            \E cause \in PlatformCauses(r, as_millis_jint(t)) :
              last' = Call("read_bulk", a, IF r >= 0 THEN "Ok" ELSE "Transfer",
                           IF r >= 0 THEN r ELSE 0,
                           << BulkXfer("bulk_in", len, t) >>, "none", cause)
    /\ UNCHANGED <<is_connected, timeout, ser_conf, dtr_rts, ctrl_index, attached>>

\* DeviceHandle::write_bulk
write_bulk(endpoint, len, t) ==
    LET a == [Arg("len", len) EXCEPT !.val = endpoint] IN
    /\ IF endpoint.direction # "Out"
       THEN last' = Call("write_bulk", a, "BadParam", 0, NoXfer, "none", "none")
       ELSE IF len = 0
       THEN last' = Call("write_bulk", a, "Ok", 0, NoXfer, "none", "none")
       ELSE \E r \in PlatformReturns(len) :
            \E cause \in PlatformCauses(r, as_millis_jint(t)) :
              last' = Call("write_bulk", a, IF r >= 0 THEN "Ok" ELSE "Transfer",
                           IF r >= 0 THEN r ELSE 0,
                           << BulkXfer("bulk_out", len, t) >>, "none", cause)
    /\ UNCHANGED <<is_connected, timeout, ser_conf, dtr_rts, ctrl_index, attached>>

\* DeviceHandle::read_control: the direction of the request type, then
\* control_transfer (an empty buffer is transferred all the same)
read_control(request_type, request, value, index, buf, t) ==
    LET a == [Arg("len", Len(buf)) EXCEPT !.val = request_type] IN
    /\ IF ctrl_request_dir(request_type) # "In"
       THEN last' = Call("read_control", a, "BadParam", 0, NoXfer, "none", "none")
       ELSE \E r \in PlatformReturns(Len(buf)) :
            \E cause \in PlatformCauses(r, as_millis_jint(t)) :
              last' = Call("read_control", a, IF r >= 0 THEN "Ok" ELSE "Transfer",
                           IF r >= 0 THEN r ELSE 0,
                           << [CtrlXfer(request, value, index, buf, t)
                                 EXCEPT !.reqtype = request_type] >>, "none", cause)
    /\ UNCHANGED <<is_connected, timeout, ser_conf, dtr_rts, ctrl_index, attached>>

\* DeviceHandle::write_control
write_control(request_type, request, value, index, buf, t) ==
    LET a == [Arg("len", Len(buf)) EXCEPT !.val = request_type] IN
    /\ IF ctrl_request_dir(request_type) # "Out"
       THEN last' = Call("write_control", a, "BadParam", 0, NoXfer, "none", "none")
       ELSE \E r \in PlatformReturns(Len(buf)) :
            \E cause \in PlatformCauses(r, as_millis_jint(t)) :
              last' = Call("write_control", a, IF r >= 0 THEN "Ok" ELSE "Transfer",
                           IF r >= 0 THEN r ELSE 0,
                           << [CtrlXfer(request, value, index, buf, t)
                                 EXCEPT !.reqtype = request_type] >>, "none", cause)
    /\ UNCHANGED <<is_connected, timeout, ser_conf, dtr_rts, ctrl_index, attached>>

\* the handle of an opened device given endpoints of both directions, request
\* types of both directions (0x7F and 0xFF among them), buffers up to MaxLen
NextHandle ==
    \/ (\E d \in {"In", "Out"}, len \in 0..MaxLen, t \in TimeoutSet :
          read_bulk(EndpointInfo(1, "Bulk", d), len, t))
       /\ UNCHANGED <<nc_returned, hist_conf, hist_lines, engVars, auxVars>>
    \/ (\E d \in {"In", "Out"}, len \in 0..MaxLen, t \in TimeoutSet :
          write_bulk(EndpointInfo(1, "Bulk", d), len, t))
       /\ UNCHANGED <<nc_returned, hist_conf, hist_lines, engVars, auxVars>>
    \/ (\E rt \in {ctrl_request_type(d, "Class", "Interface") : d \in {"In", "Out"}}
                    \cup {127, 255},
           len \in 0..MaxLen, t \in TimeoutSet :
          read_control(rt, SET_LINE_CODING + 1, 0, ctrl_index, [i \in 1..len |-> 0], t))
       /\ UNCHANGED <<nc_returned, hist_conf, hist_lines, engVars, auxVars>>
    \/ (\E rt \in {ctrl_request_type(d, "Class", "Interface") : d \in {"In", "Out"}}
                    \cup {127, 255},
           len \in 0..MaxLen, t \in TimeoutSet :
          write_control(rt, SET_LINE_CODING, 0, ctrl_index, [i \in 1..len |-> 0], t))
       /\ UNCHANGED <<nc_returned, hist_conf, hist_lines, engVars, auxVars>>
    \/ Detach /\ UNCHANGED <<nc_returned, hist_conf, hist_lines, engVars, auxVars>>
    \/ Attach /\ UNCHANGED <<nc_returned, hist_conf, hist_lines, engVars, auxVars>>

SpecHandle == Init /\ [][NextHandle]_vars
\* the session driven through the serialport trait: the single-field setters
\* and the line writers, from a session with no timeout whose control interface is 0
NextPort ==
    \/ (\E i \in 1..MaxBaudIdx : set_baud_rate(BaudRates[i])) /\ Returned /\ UNCHANGED <<engVars, auxVars>>
    \/ (\E data_bits \in {"sp:Seven", "sp:Eight"} : set_data_bits(data_bits)) /\ Returned /\ UNCHANGED <<engVars, auxVars>>
    \/ (\E parity \in {"sp:None", "sp:Even"} : set_parity(parity)) /\ Returned /\ UNCHANGED <<engVars, auxVars>>
    \/ (\E stop_bits \in {"sp:One", "sp:Two"} : set_stop_bits(stop_bits)) /\ Returned /\ UNCHANGED <<engVars, auxVars>>
    \/ (\E value \in BOOLEAN : write_request_to_send(value)) /\ Returned /\ UNCHANGED <<engVars, auxVars>>
    \/ (\E value \in BOOLEAN : write_data_terminal_ready(value)) /\ Returned /\ UNCHANGED <<engVars, auxVars>>
    \/ Detach /\ UNCHANGED <<nc_returned, hist_conf, hist_lines, engVars, auxVars>>
    \/ Attach /\ UNCHANGED <<nc_returned, hist_conf, hist_lines, engVars, auxVars>>

InitPort == Init /\ timeout = DURATION_ZERO /\ ctrl_index = 0

SpecPort == InitPort /\ [][NextPort]_vars

\* before build there is no session: its fields hold no value of interest
NoSession ==
    /\ is_connected = FALSE
    /\ timeout = DURATION_ZERO
    /\ ser_conf = NoConf
    /\ dtr_rts = <<FALSE, FALSE>>
    /\ ctrl_index = 0
    /\ attached = TRUE
    /\ last = [BuildCall EXCEPT !.op = "none", !.conn = FALSE]
    /\ nc_returned = FALSE
    /\ hist_conf = NoConf
    /\ hist_lines = <<FALSE, FALSE>>

NextOpen ==
    \/ (\E t \in TimeoutSet : build(t)) /\ UNCHANGED <<engVars, cfg>>
    \/ drop /\ UNCHANGED <<engVars, cfg>>

\* build on one device of DeviceUniverse, then drop
InitOpen ==
    /\ NoSession /\ EngInit /\ cfg = NoCfg
    /\ devices \in {<< d >> : d \in DeviceUniverse}
    /\ found = NoFound /\ built = NoBuilt /\ handle_log = << >>

SpecOpen == InitOpen /\ [][NextOpen]_vars

NextProbe ==
    (\E list_res \in {"Ok", "NotSupported", "Other"} : probe(list_res))
        /\ UNCHANGED <<engVars, cfg>>

\* probe over an enumeration of up to MaxDevs devices: some with the
\* interfaces of a CDC-ACM device, one with a data interface only, one with
\* a communication interface of another subclass before the matching one,
\* one whose interfaces cannot be read
InitProbe ==
    /\ NoSession /\ EngInit /\ cfg = NoCfg
    /\ devices \in SeqsUpTo({AcmDevice(n) : n \in 0..MaxIntf}
                               \cup { DeviceInfo(<< DataPair >>, TRUE),
                                      DeviceInfo(<< CommOther, DataNone, CommIntr(0) >>, TRUE),
                                      DeviceInfo(<< CommIntr(0), DataPair >>, FALSE) },
                             MaxDevs)
    /\ found = NoFound /\ built = NoBuilt /\ handle_log = << >>

SpecProbe == InitProbe /\ [][NextProbe]_vars

\* the session until it is dropped
NextClose ==
    \/ (~built.dropped /\ \E len \in 0..MaxLen : read(len))
          /\ Returned /\ UNCHANGED <<engVars, auxVars>>
    \/ (~built.dropped /\ \E dtr \in BOOLEAN, rts \in BOOLEAN : set_dtr_rts(dtr, rts))
          /\ Returned /\ UNCHANGED <<engVars, auxVars>>
    \/ Detach /\ UNCHANGED <<nc_returned, hist_conf, hist_lines, engVars, auxVars>>
    \/ Attach /\ UNCHANGED <<nc_returned, hist_conf, hist_lines, engVars, auxVars>>
    \/ drop /\ UNCHANGED <<engVars, cfg>>

SpecClose == Init /\ [][NextClose]_vars

\* the engines alone: the session stays as built
EngNext ==
    \/ (\E len \in 0..MaxLen, tmo \in 0..MaxWait : read_call(len, tmo)) /\ UNCHANGED <<sessVars, auxVars>>
    \/ read_complete /\ UNCHANGED <<sessVars, auxVars>>
    \/ read_deadline /\ UNCHANGED <<sessVars, auxVars>>
    \/ read_cancel_complete /\ UNCHANGED <<sessVars, auxVars>>
    \/ (\E len \in 0..MaxLen, tmo \in 0..MaxWait : write_call(len, tmo)) /\ UNCHANGED <<sessVars, auxVars>>
    \/ write_complete /\ UNCHANGED <<sessVars, auxVars>>
    \/ write_deadline /\ UNCHANGED <<sessVars, auxVars>>
    \/ write_cancel_complete /\ UNCHANGED <<sessVars, auxVars>>
    \/ (\E d \in Dirs : transport_complete(d)) /\ UNCHANGED <<sessVars, auxVars>>

EngStart == Init /\ timeout = DURATION_ZERO /\ ctrl_index = 0

SpecEngine == EngStart /\ [][EngNext]_vars


\* the engines under the scheduling the code relies on: a call that can take
\* its next step takes it, the timer of block_for_timeout fires, and the
\* transport completes a request whose cancellation was requested
SpecEngineLive ==
    /\ EngStart
    /\ [][EngNext]_vars
    /\ WF_vars(read_complete /\ UNCHANGED <<sessVars, auxVars>>)
    /\ WF_vars(read_deadline /\ UNCHANGED <<sessVars, auxVars>>)
    /\ WF_vars(read_cancel_complete /\ UNCHANGED <<sessVars, auxVars>>)
    /\ WF_vars(write_complete /\ UNCHANGED <<sessVars, auxVars>>)
    /\ WF_vars(write_deadline /\ UNCHANGED <<sessVars, auxVars>>)
    /\ WF_vars(write_cancel_complete /\ UNCHANGED <<sessVars, auxVars>>)
    /\ \A d \in Dirs : WF_vars(q_cancel[d] /\ transport_complete(d) /\ UNCHANGED <<sessVars, auxVars>>)

(***************************************************************************)
(* Properties                                                              *)
(***************************************************************************)
\* a step of the session that is a call (every call flips last.seq)
IsCall == last' # last

\* C1: the connected flag is one-way: once is_connected is false, no call on
\* the session (read, write, set_config, set_dtr_rts, set_break_state,
\* set_timeout) makes it true again.
C1_ConnectedOneWay == [][~is_connected => ~is_connected']_vars

\* a call was made on a session already marked disconnected while the device
\* was back in the device list
C1_Witness == ~is_connected /\ attached /\ ~last.conn /\ last.op = "read"

\* C2: while is_connected is false, each of read, write, set_config,
\* set_dtr_rts and set_break_state returns NotConnected and hands no bulk and
\* no control transfer to the device handle.
C2_FailFast ==
    [][(IsCall /\ ~is_connected /\ last'.op \in {"read", "write", "set_config", "set_dtr_rts",
                                            "set_break_state"})
          => (last'.res = "NotConnected" /\ last'.xfers = NoXfer)]_vars

C2_Witness == ~last.conn /\ last.op = "set_break_state"

\* C3: a failed transfer classified as disconnection returns NotConnected and
\* leaves the flag false; no call returns NotConnected with the flag true; and
\* once a call has returned NotConnected every later read, write and
\* set_config returns NotConnected without a transfer.
C3_DisconnectClassified ==
    [][IsCall =>
         /\ (last'.chk = "absent" => (last'.res = "NotConnected" /\ ~is_connected'))
         /\ (last'.res = "NotConnected" => ~is_connected')
         /\ ((nc_returned /\ last'.op \in {"read", "write", "set_config"})
               => (last'.res = "NotConnected" /\ last'.xfers = NoXfer))]_vars

C3_Witness == nc_returned /\ last.op = "set_config" /\ last.res = "NotConnected"
                /\ last.xfers = NoXfer /\ attached

\* a call of direction d returns in this step
Returns(d) == rw_pc[d] # "idle" /\ rw_pc'[d] = "idle"

\* C4: when the deadline has fired and the cancelled request completes with
\* status Cancelled, read and write fail with TimedOut exactly when the
\* completion carries no bytes and return Ok(N) when it carries N > 0 bytes,
\* which read has copied into the front of the caller's buffer.
C4_CancelledClassification ==
    [][\A d \in Dirs :
         (Returns(d) /\ rw_pc[d] = "cancelwait" /\ q_comp[d].status = "Cancelled") =>
            /\ (ret'[d].res = "TimedOut") <=> (q_comp[d].n = 0)
            /\ q_comp[d].n > 0 =>
                 /\ ret'[d].res = "Ok"
                 /\ ret'[d].n = q_comp[d].n
                 /\ d = "in" => SubSeq(cbuf', 1, q_comp[d].n) = DevData(q_comp[d].n)]_vars

C4_Witness == /\ rw_pc["in"] = "idle" /\ ret["in"].status = "Cancelled" /\ ret["in"].n > 0
              /\ rw_pc["out"] = "idle" /\ ret["out"].status = "Cancelled" /\ ret["out"].n = 0

\* C5: after the deadline has fired and the cancellation was requested with
\* the request still pending, the call waits for that request's completion
\* and classifies it; no call returns with its request pending, so the
\* queue's pending count is 0 whenever no call is running.
C5_WaitsForCompletion ==
    /\ [](\A d \in Dirs : rw_pc[d] = "idle" => q_pending[d] = 0)
    /\ [][\A d \in Dirs :
            /\ (rw_pc[d] = "wait" /\ rw_pc'[d] # "wait" /\ q_pending'[d] > 0)
                 => (rw_pc'[d] = "cancelwait" /\ q_cancel'[d])
            /\ (Returns(d) /\ rw_pc[d] = "cancelwait")
                 => (q_comp[d] # NoComp /\ ret'[d].status = q_comp[d].status)]_vars

C5_Witness == rw_pc["out"] = "idle" /\ ret["out"].cancelled /\ ret["out"].status = "Disconnected"

\* C6: when the deadline fires and the queue reports nothing pending after
\* cancel_all, the call returns the "transfer result unavailable" error at
\* once, with an empty buffer in the reuse slot, and waits for nothing.
C6_RaceExit ==
    [][\A d \in Dirs :
         (rw_pc[d] = "wait" /\ rw_pc'[d] # "wait" /\ q_pending'[d] = 0
            /\ ret'[d].status = "none")
         => (rw_pc'[d] = "idle" /\ ret'[d].res = "OtherUnavailable" /\ slot'[d] = NewBuf)]_vars

C6_Witness == \E d \in Dirs : rw_pc[d] = "idle" /\ ret[d].res = "OtherUnavailable"
                                /\ req[d].tmo # 0

\* C7: the reuse slot holds a buffer whenever no call is running, after every
\* kind of return, so the next call can take it (take().unwrap() never fails).
C7_BufferRestored ==
    \A d \in Dirs : /\ rw_pc[d] # "panic"
                    /\ rw_pc[d] = "idle" => slot[d] # NoBuf

C7_Witness == /\ rw_pc["in"] = "idle" /\ ret["in"].res = "OtherStall"
              /\ rw_pc["out"] = "wait" /\ ret["out"].res = "running"

\* C8: a read or write with a nonzero timeout returns, given that the
\* transport completes every request whose cancellation was requested.
C8_Returns ==
    \A d \in Dirs : (rw_pc[d] = "wait" /\ req[d].tmo # 0) ~> (rw_pc[d] = "idle")

C8_Witness == /\ rw_pc["in"] = "idle" /\ ret["in"].res = "TimedOut" /\ req["in"].tmo # 0
              /\ rw_pc["out"] = "cancelwait"

\* C9: a read whose completion arrives before the deadline with status Ok
\* returns the n bytes the completion reports: Ok(n), the n bytes at the
\* front of the caller's buffer, the rest of the buffer as it was, and
\* n <= buf.len().
C9_ReadSuccess ==
    [][(Returns("in") /\ rw_pc["in"] = "wait" /\ q_comp["in"].status = "Ok"
          /\ ~ret'["in"].cancelled)
       => /\ ret'["in"].res = "Ok"
          /\ ret'["in"].n = q_comp["in"].n
          /\ ret'["in"].n <= req["in"].len
          /\ Len(cbuf') = req["in"].len
          /\ \A i \in 1..Len(cbuf') :
               cbuf'[i] = IF i <= q_comp["in"].n THEN DevData(q_comp["in"].n)[i]
                          ELSE OldBuf(req["in"].len)[i]]_vars

C9_Witness == /\ rw_pc["in"] = "idle" /\ ret["in"].status = "Ok" /\ ~ret["in"].cancelled
              /\ ret["in"].n = 1 /\ req["in"].len = 2

\* C10: read and write with an empty buffer return Ok(0) and leave the
\* engine as it was: the buffer is not taken, nothing is submitted and
\* nothing is cancelled.
C10_EmptyBuffer ==
    [][\A d \in Dirs :
         (rw_pc[d] = "idle" /\ req'[d].len = 0 /\ (req'[d] # req[d] \/ ret'[d] # ret[d]))
         => /\ ret'[d] = Ret("Ok", 0, FALSE, 0, "none")
            /\ rw_pc'[d] = "idle"
            /\ slot'[d] = slot[d]
            /\ q_pending'[d] = q_pending[d]
            /\ q_cancel'[d] = q_cancel[d]
            /\ q_comp'[d] = q_comp[d]]_vars

C10_Witness == \A d \in Dirs : /\ rw_pc[d] = "idle" /\ req[d].len = 0
                               /\ ret[d].res = "Ok" /\ slot[d] = UsedBuf

\* a read or write of the session with an empty buffer
EmptyCall == IsCall /\ last'.op \in {"read", "write"} /\ last'.arg.len = 0

\* C11, as stated: on a session, read and write with an empty buffer return
\* Ok(0) and issue no transfer in every session state, whether or not a
\* disconnection has been recorded.
C11_EmptyAlwaysZero ==
    [][EmptyCall => (last'.res = "Ok" /\ last'.n = 0 /\ last'.xfers = NoXfer)]_vars

\* C11, amended: on a session, read and write with an empty buffer issue no
\* transfer and leave the flag alone in every session state; they return
\* Ok(0) while the flag is true and NotConnected once it is false.
C11_EmptyBuffer ==
    [][EmptyCall =>
         /\ last'.xfers = NoXfer
         /\ is_connected' = is_connected
         /\ IF is_connected THEN last'.res = "Ok" /\ last'.n = 0
                            ELSE last'.res = "NotConnected"]_vars

C11_Witness == /\ last.op = "write" /\ last.arg.len = 0 /\ ~last.conn
               /\ last.res = "NotConnected" /\ last.xfers = NoXfer /\ attached

\* C12: a zero timeout means wait indefinitely: a read or write called with
\* timeout zero never requests cancellation and never returns TimedOut; it
\* returns only when the request it submitted has completed, with the
\* result of that completion.
C12_ZeroTimeout ==
    [][\A d \in Dirs :
         (rw_pc[d] = "wait" /\ req[d].tmo = 0) =>
            /\ rw_pc'[d] \in {"wait", "idle"}
            /\ ~q_cancel'[d]
            /\ q_calls'[d].cancel_all = 0
            /\ Returns(d) =>
                 /\ q_comp[d] # NoComp
                 /\ ret'[d].status = q_comp[d].status
                 /\ ret'[d].res # "TimedOut"
                 /\ ~ret'[d].cancelled]_vars

C12_Witness == /\ rw_pc["in"] = "idle" /\ req["in"].tmo = 0 /\ req["in"].len > 0
               /\ ret["in"].status = "Ok" /\ ~ret["in"].cancelled
               /\ rw_pc["out"] = "wait" /\ req["out"].tmo = 0 /\ q_comp["out"] = NoComp

\* C13: when a call takes a completion with status Stall, it calls
\* clear_halt exactly once, ignores what clear_halt returns, and fails with
\* the I/O error that carries the stall; the request is not submitted again
\* and the buffer is put back.
C13_Stall ==
    [][\A d \in Dirs :
         (Returns(d) /\ q_comp[d].status = "Stall" /\ ret'[d].res # "OtherUnavailable") =>
            /\ ret'[d].halts = 1
            /\ ret'[d].res = "OtherStall"
            /\ ret'[d].status = "Stall"
            /\ slot'[d] = UsedBuf
            /\ q_calls'[d].submit = 1
            /\ q_pending'[d] = 0]_vars

C13_Witness == /\ rw_pc["in"] = "idle" /\ ret["in"].status = "Stall"
               /\ ret["in"].halts = 1 /\ ~ret["in"].halt_ok
               /\ ret["in"].res = "OtherStall" /\ slot["in"] = UsedBuf

\* C14: one outstanding request per direction: with the calls on one engine
\* sequential, every non-empty read or write submits exactly one request and
\* calls cancel_all at most once, the queue of a direction never holds more
\* than one pending request, and nothing is left in the queue between calls,
\* so the completion a call takes is the one of the request it submitted.
C14_OneOutstanding ==
    \A d \in Dirs :
        /\ q_pending[d] <= 1
        /\ q_calls[d].cancel_all <= 1
        /\ req[d].len > 0 => q_calls[d].submit = 1
        /\ rw_pc[d] = "idle" => (q_pending[d] = 0 /\ q_comp[d] = NoComp)
        /\ q_comp[d] # NoComp => (q_pending[d] = 1 /\ q_comp[d].n <= req[d].len)

C14_Witness == /\ rw_pc["in"] = "cancelwait" /\ q_pending["in"] = 1
               /\ q_calls["in"] = [submit |-> 1, cancel_all |-> 1]
               /\ rw_pc["out"] = "wait" /\ q_pending["out"] = 1
               /\ q_comp["out"] # NoComp

\* C15: a read or write of the session whose deadline expires with no byte
\* moved, while the device is still attached, fails with TimedOut (not with
\* Other or NotConnected) and leaves the connected flag true.  Stated for the
\* calls whose re-check of the device list finds the device.
C15_TimedOut ==
    [][(IsCall /\ last'.op \in {"read", "write"} /\ last'.cause = "timeout"
          /\ attached /\ last'.chk = "present")
          => (last'.res = "TimedOut" /\ is_connected')]_vars

\* C16: a set_config whose control transfer writes fewer than 7 bytes fails
\* with the incomplete-transfer error (io::ErrorKind::Interrupted, "wrong
\* written size") and leaves the cached configuration as it was.
C16_ShortWrite ==
    [][(IsCall /\ last'.op = "set_config" /\ last'.xfers # NoXfer
          /\ last'.cause = "none" /\ last'.n < 7)
          => /\ last'.res = "Interrupted"
             /\ ser_conf' = ser_conf
             /\ dtr_rts' = dtr_rts
             /\ is_connected' = is_connected]_vars

C16_Witness == /\ last.op = "set_config" /\ last.res = "Interrupted" /\ last.n = 6
               /\ ser_conf # NoConf /\ ser_conf # last.arg.conf

\* C17: in every reachable state of the session the cached SerialConfig is
\* absent when no set_config has succeeded and else the argument of the last
\* set_config that succeeded, and the cached DTR/RTS pair is (false, false)
\* when no set_dtr_rts has succeeded and else the arguments of the last
\* set_dtr_rts that succeeded; a failed call changes neither.
C17_CacheHistory == ser_conf = hist_conf /\ dtr_rts = hist_lines

C17_Witness == /\ hist_conf # NoConf /\ hist_lines = <<TRUE, FALSE>>
               /\ last.op = "set_dtr_rts" /\ last.arg.lines = <<FALSE, TRUE>>
               /\ last.res \in {"Interrupted", "Other", "NotConnected"}

\* the one transfer of a call is a control OUT transfer to the interface
\* `index` with a class request
ClassRequest(x, request, value, index) ==
    /\ Len(x) = 1
    /\ x[1].kind = "ctrl"
    /\ x[1].reqtype \div 128 = 0            \* direction OUT
    /\ (x[1].reqtype \div 32) % 4 = 1       \* type Class
    /\ x[1].reqtype % 32 = 1                \* recipient Interface
    /\ x[1].request = request
    /\ x[1].value = value
    /\ x[1].index = index

LineStateRequest(x, lines) ==
    /\ ClassRequest(x, 34,
                    CASE lines = <<TRUE, FALSE>> -> 1 [] lines = <<TRUE, TRUE>> -> 3
                      [] lines = <<FALSE, TRUE>> -> 2 [] lines = <<FALSE, FALSE>> -> 0,
                    ctrl_index)
    /\ x[1].data = << >>

BreakRequest(x, val) ==
    /\ ClassRequest(x, 35, IF val THEN 65535 ELSE 0, ctrl_index)
    /\ x[1].data = << >>

IsTwice(d, t) ==
    LET carry == IF t.nanos + t.nanos >= NANOS_PER_SEC THEN 1 ELSE 0
    IN  /\ d.secs - t.secs - carry = t.secs
        /\ d.nanos = t.nanos + t.nanos - carry * NANOS_PER_SEC

\* C21: each control request (set_config, set_dtr_rts, set_break_state on a
\* connected session) is issued with a timeout of exactly twice the
\* session's stored timeout, for every timeout the session can hold.
C21_TwiceTimeout ==
    [][(IsCall /\ is_connected /\ last'.op \in {"set_config", "set_dtr_rts", "set_break_state"})
          => /\ Len(last'.xfers) = 1
             /\ IsTwice(last'.xfers[1].dur, timeout)]_vars

\* C30: set_timeout(t) updates only the stored timeout: it issues no platform
\* call and leaves is_connected, the cached SerialConfig and the cached
\* DTR/RTS pair unchanged; no other call changes the stored timeout, so every
\* later read and write hands its transfer the new timeout and every later
\* control request is issued with twice the new timeout.
C30_SetTimeout ==
    [][IsCall =>
         /\ last'.op = "set_timeout"
              => /\ timeout' = last'.arg.dur
                 /\ last'.res = "Ok" /\ last'.xfers = NoXfer /\ last'.chk = "none"
                 /\ is_connected' = is_connected
                 /\ ser_conf' = ser_conf /\ dtr_rts' = dtr_rts
         /\ last'.op # "set_timeout" => timeout' = timeout
         /\ (last'.op \in {"read", "write"} /\ last'.xfers # NoXfer)
              => last'.xfers[1].dur = timeout
         /\ (last'.op \in {"set_config", "set_dtr_rts", "set_break_state"} /\ last'.xfers # NoXfer)
              => IsTwice(last'.xfers[1].dur, timeout)]_vars

\* the timeout was set to a fraction of a millisecond on a session that holds
\* a SerialConfig and raised lines, and a control request went out with twice it
C30_Witness == /\ timeout = Duration(0, 300000)
               /\ last.op = "set_break_state" /\ last.res = "Ok"
               /\ last.xfers[1].dur = Duration(0, 600000)
               /\ ser_conf # NoConf /\ dtr_rts = <<TRUE, TRUE>>

\* C22: for every SerialConfig c (any baud rate, any of the 5 parities, 5
\* data-bits values and 3 stop-bits values), parsing the string produced by
\* formatting c succeeds and yields a value equal to c.
C22_TextRoundTrip ==
    cfg.parsed.done => /\ cfg.text = fmt(cfg.c)
                       /\ cfg.parsed.ok
                       /\ cfg.parsed.conf = cfg.c

C22_Witness == /\ cfg.parsed.done
               /\ cfg.c = SerialConfig(115200, "Space", "Sixteen", "OnePointFive")
               /\ cfg.text = << "1", "1", "5", "2", "0", "0", ",", "S", ",", "1", "6", ",",
                                "1", ".", "5" >>

\* C23: for every SerialConfig, including 1.5 stop bits, Mark/Space parity
\* and 16 data bits, encoding yields 7 bytes with the baud rate little-endian
\* in bytes 0-3, the stop-bits code 0/1/2 in byte 4, the parity code 0..4 in
\* byte 5 and the data-bits value in byte 6; the bytes give back all four
\* fields, so no other SerialConfig encodes to the same bytes.
C23_LineCoding ==
    cfg.bytes # << >> =>
        LET b == cfg.bytes
            c == cfg.c
        IN  /\ Len(b) = 7
            /\ \A i \in 1..7 : b[i] \in 0..255
            /\ b[1] = c.baud_rate % 256
            /\ b[2] = (c.baud_rate \div 256) % 256
            /\ b[3] = (c.baud_rate \div 65536) % 256
            /\ b[4] = c.baud_rate \div 16777216
            /\ b[5] = (CASE c.stop_bits = "One" -> 0 [] c.stop_bits = "OnePointFive" -> 1
                          [] c.stop_bits = "Two" -> 2)
            /\ b[6] = (CASE c.parity = "None" -> 0 [] c.parity = "Odd" -> 1
                          [] c.parity = "Even" -> 2 [] c.parity = "Mark" -> 3
                          [] c.parity = "Space" -> 4)
            /\ b[7] = (CASE c.data_bits = "Five" -> 5 [] c.data_bits = "Six" -> 6
                          [] c.data_bits = "Seven" -> 7 [] c.data_bits = "Eight" -> 8
                          [] c.data_bits = "Sixteen" -> 16)
            /\ \A c2 \in ConfigUniverse : line_coding(c2) = b => c2 = c

C23_Witness == /\ cfg.c = SerialConfig(115200, "Space", "Sixteen", "OnePointFive")
               /\ cfg.bytes = << 0, 194, 1, 0, 1, 4, 16 >>

\* where in an interface list the communication interfaces with the abstract
\* control model are, and where the data interfaces
CommAt(v) == {i \in 1..Len(v) : v[i].class = 2 /\ v[i].sub_class = 2}
DataAt(v) == {i \in 1..Len(v) : v[i].class = 10}
First(S)  == CHOOSE i \in S : \A j \in S : i <= j

\* C24: for every ordered interface list, cdc_acm_intrs returns the first
\* interface with class 0x02 and subclass 0x02 together with the first
\* interface with class 0x0A, and returns None if and only if at least one of
\* the two kinds is absent; a device with only a Data interface is not matched.
\* (build fails with InvalidInput exactly when cdc_acm_intrs returned None.)
C24_InterfaceMatcher ==
    (built.done /\ devices[1].readable) =>
        LET v == devices[1].intrs IN
        IF CommAt(v) = {} \/ DataAt(v) = {}
        THEN /\ built.res = "InvalidInput"
             /\ built.intr_comm = NoIntr /\ built.intr_data = NoIntr
        ELSE /\ built.res # "InvalidInput"
             /\ built.intr_comm = v[First(CommAt(v))]
             /\ built.intr_data = v[First(DataAt(v))]

\* a communication interface before two data interfaces: the first data
\* interface is the one returned
C24_Witness == /\ built.done /\ built.res = "NotFound"
               /\ devices[1].intrs = << CommIntr(1), DataOut, DataPair >>
               /\ built.intr_comm = CommIntr(1) /\ built.intr_data = DataOut

\* the interface has a bulk endpoint of the direction
HasBulk(intr, direction) ==
    \E k \in 1..Len(intr.endpoints) :
        /\ intr.endpoints[k].transfer_type = "Bulk"
        /\ intr.endpoints[k].direction = direction

\* C25: among the Data interface's alternate settings, open selects the first
\* one exposing both a bulk-IN and a bulk-OUT endpoint, and fails with
\* EndpointsNotFound (NotFound) only if no alternate setting of the Data
\* interface has both bulk directions (the interfaces are there and their
\* endpoints can be read).
C25_AlternateSettings ==
    (built.done /\ devices[1].readable /\ built.env.endps_ok
       /\ CommAt(devices[1].intrs) # {} /\ DataAt(devices[1].intrs) # {}) =>
        LET v == devices[1].intrs
            \* where the alternate settings with both bulk directions are
            pairs == {i \in DataAt(v) : HasBulk(v[i], "In") /\ HasBulk(v[i], "Out")}
        IN  /\ built.res = "NotFound" => pairs = {}
            /\ built.res = "Ok" => built.intr_data = v[First(pairs)]
            /\ pairs # {} => built.res \in {"Ok", "PermissionDenied"}

\* where in the log of platform calls the calls of one kind are
CallAt(log, call) == {i \in 1..Len(log) : log[i].call = call}

\* C26: open claims both the Communication and the Data interface
\* and returns either a session or one of the typed failures; when claiming
\* either interface fails, open returns ClaimFailed and no session (the
\* endpoints of the data interface can be read).
C26_ClaimFailed ==
    (built.done /\ built.env.endps_ok) =>
        /\ built.res \in {"Ok", "InvalidInput", "NotFound", "PermissionDenied", "ClaimFailed"}
        /\ built.res = "Ok" =>
             /\ CallAt(handle_log, "claimInterface") = {2, 3}
             /\ handle_log[2].intr = built.intr_comm /\ handle_log[2].ok
             /\ handle_log[3].intr = built.intr_data /\ handle_log[3].ok
        /\ (\E i \in CallAt(handle_log, "claimInterface") : ~handle_log[i].ok) => built.res = "ClaimFailed"

\* the device lacks the communication or the data interface (or its
\* interfaces cannot be read)
LacksInterface(d) == ~d.readable \/ CommAt(d.intrs) = {} \/ DataAt(d.intrs) = {}

\* C27: open's failures are distinguishable and checked in a fixed order: a
\* device lacking the Communication or the Data interface fails with
\* NotACdcDevice (InvalidInput); otherwise a Data interface lacking a bulk-IN
\* or a bulk-OUT endpoint fails with EndpointsNotFound (NotFound); otherwise a
\* failure to open the device handle (permission not granted) fails with
\* PermissionDenied. Each of the three kinds is returned in its case only,
\* and the first two before the platform is asked to open the device. (The
\* endpoints of the data interface can be read.)
C27_FailureOrder ==
    (built.done /\ built.env.endps_ok) =>
        LET d == devices[1]
            \* the data interface, the first of class 0x0A
            intr == d.intrs[First(DataAt(d.intrs))]
            lacks_endpoint == ~HasBulk(intr, "In") \/ ~HasBulk(intr, "Out")
        IN  /\ built.res = "InvalidInput" <=> LacksInterface(d)
            /\ built.res = "NotFound" <=> (~LacksInterface(d) /\ lacks_endpoint)
            /\ built.res = "PermissionDenied"
                 <=> (~LacksInterface(d) /\ ~lacks_endpoint /\ built.env.open # "Ok")
            /\ built.res \in {"InvalidInput", "NotFound"} => handle_log = << >>

\* no data endpoints and no permission: the endpoints are reported
C27_Witness == /\ built.done /\ built.res = "NotFound" /\ built.env.open = "Access"
               /\ devices[1].intrs = << CommIntr(0), DataOut >>

\* C28: probe returns exactly the enumerated devices for which the Interface
\* Matcher matches, in enumeration order; a device that does not match (or
\* whose interfaces cannot be read) is omitted without making probe fail, and
\* an enumeration with no matching device yields an empty list. probe fails
\* only when the devices cannot be enumerated.
C28_Probe ==
    found.done =>
        /\ found.res = "Ok" <=> found.enum = "Ok"
        /\ found.res = "Ok"
             => found.list = SelectSeq(devices, LAMBDA d : ~LacksInterface(d))
        /\ (found.res = "Ok" /\ \A i \in 1..Len(devices) : LacksInterface(devices[i]))
             => found.list = << >>

\* an unreadable device is left out, the two others are kept in their order
C28_Witness == /\ found.done /\ found.res = "Ok"
               /\ devices = << AcmDevice(1), DeviceInfo(<< CommIntr(0), DataPair >>, FALSE),
                               AcmDevice(0) >>
               /\ found.list = << AcmDevice(1), AcmDevice(0) >>


\* C29: dropping a session releases both interfaces and then closes the
\* handle, in that order, each step attempted exactly once even if an
\* earlier step fails, in every session state including Disconnected; a
\* failed release never prevents the handle from being closed. Until the
\* session is dropped nothing is released or closed.
C29_Drop ==
    LET n == Len(handle_log) IN
    IF built.dropped
    THEN /\ CallAt(handle_log, "releaseInterface") = {n - 2, n - 1}
         /\ CallAt(handle_log, "close") = {n}
         /\ handle_log[n - 2].intr = built.intr_comm
         /\ handle_log[n - 1].intr = built.intr_data
    ELSE /\ CallAt(handle_log, "releaseInterface") = {}
         /\ CallAt(handle_log, "close") = {}

\* a disconnected session was dropped, the first release failed
C29_Witness == /\ built.dropped /\ ~is_connected /\ ~attached
               /\ Len(handle_log) = 6
               /\ handle_log[4] = PlatformCall("releaseInterface", CommIntr(1), FALSE)
               /\ handle_log[5] = PlatformCall("releaseInterface", DataPair, FALSE)
               /\ handle_log[6] = PlatformCall("close", NoIntr, TRUE)

\* what the engine of direction d holds: the position of its call, its
\* reusable buffer, its queue, the arguments, counts and result of its call
\* (and the caller's buffer of the read)
Engine(d) ==
    <<rw_pc[d], slot[d], q_pending[d], q_cancel[d], q_comp[d], req[d], q_calls[d], ret[d],
      IF d = "in" THEN cbuf ELSE << >> >>

\* C31: the IN and OUT directions are independent: a SyncReader and a
\* SyncWriter hold disjoint state (own queue, own reusable buffer). Under
\* any interleaving of a read with a write, a step of one direction leaves
\* everything the other engine holds as it was, and what a direction can do
\* next depends on its own state only: an idle engine accepts a call, a
\* pending request can complete, and a call whose completion has arrived
\* returns, whatever the other direction is doing.
C31_Independent ==
    /\ [][\A d \in Dirs : Engine(d)' # Engine(d)
                            => \A e \in Dirs \ {d} : Engine(e)' = Engine(e)]_vars
    /\ [](/\ rw_pc["in"] = "idle" => ENABLED read_call(1, 1)
          /\ rw_pc["out"] = "idle" => ENABLED write_call(1, 1)
          /\ (rw_pc["in"] = "wait" /\ q_comp["in"] # NoComp) => ENABLED read_complete
          /\ (rw_pc["out"] = "wait" /\ q_comp["out"] # NoComp) => ENABLED write_complete
          /\ (rw_pc["in"] = "cancelwait" /\ q_comp["in"] # NoComp)
               => ENABLED read_cancel_complete
          /\ (rw_pc["out"] = "cancelwait" /\ q_comp["out"] # NoComp)
               => ENABLED write_cancel_complete
          /\ \A d \in Dirs : (q_pending[d] > 0 /\ q_comp[d] = NoComp)
                               => ENABLED transport_complete(d))

\* a read has returned its bytes while a write was cancelled and waits for
\* its completion
C31_Witness == /\ rw_pc["in"] = "idle" /\ ret["in"].res = "Ok" /\ ret["in"].n = MaxLen
               /\ rw_pc["out"] = "cancelwait" /\ q_calls["out"].cancel_all = 1

\* C32: the timeout handed to the platform bulk or control transfer is the
\* infinite value (0 ms) exactly when the Duration the transfer was given is
\* zero: every nonzero Duration, one shorter than a millisecond included, is
\* passed as a nonzero millisecond count, and a Duration above i32::MAX
\* milliseconds is passed as i32::MAX.
C32_FiniteTimeout ==
    [][IsCall =>
         \A i \in 1..Len(last'.xfers) :
            LET x == last'.xfers[i] IN
            /\ x.tmo = 0 <=> x.dur = DURATION_ZERO
            /\ x.dur.secs > JINT_MAX \div MILLIS_PER_SEC => x.tmo = JINT_MAX]_vars

\* C33: the connected flag changes only in the error mapping of a failed
\* transfer: a successful read, write or control operation leaves it
\* unchanged; a transfer failure while the device is still enumerated returns
\* an error other than NotConnected and leaves the flag true; the flag
\* becomes false only when a transfer fails and the device is no longer
\* enumerated.
C33_FlagFrame ==
    [][IsCall =>
         /\ last'.res = "Ok" => is_connected' = is_connected
         /\ (last'.cause # "none" /\ attached)
              => (last'.res # "NotConnected" /\ is_connected')
         /\ (is_connected /\ ~is_connected') => (last'.cause # "none" /\ ~attached)]_vars

C36_SingleField ==
    /\ [][ (last'.seq # last.seq
            /\ last'.op \in {"set_baud_rate", "set_data_bits", "set_parity", "set_stop_bits"})
           => LET base == IF ser_conf = NoConf THEN DefaultConfig ELSE ser_conf
                  a == last'.arg.conf
                  want ==
                    CASE last'.op = "set_baud_rate" -> [base EXCEPT !.baud_rate = a.baud_rate]
                      [] last'.op = "set_data_bits" ->
                           [base EXCEPT !.data_bits = from_serialport(a.data_bits)]
                      [] last'.op = "set_parity" ->
                           [base EXCEPT !.parity = from_serialport(a.parity)]
                      [] last'.op = "set_stop_bits" ->
                           [base EXCEPT !.stop_bits = from_serialport(a.stop_bits)]
              IN  /\ \A i \in 1..Len(last'.xfers) :
                       /\ last'.xfers[i].request = SET_LINE_CODING
                       /\ last'.xfers[i].data = line_coding(want)
                  /\ last'.res = "Ok" => Len(last'.xfers) = 1 /\ ser_conf' = want
                  /\ last'.res # "Ok" => ser_conf' = ser_conf ]_vars
    /\ [](ser_conf = hist_conf)

\* a setter failed on the wire after two others had each replaced one field
C36_Witness ==
    /\ last.op = "set_parity" /\ last.res = "Other" /\ last.arg.conf.parity = "sp:Even"
    /\ Len(last.xfers) = 1
    /\ ser_conf = [DefaultConfig EXCEPT !.baud_rate = 115200, !.data_bits = "Seven"]

\* C37: write_request_to_send(v) sends the control-line state with the cached
\* DTR and RTS = v, write_data_terminal_ready(v) sends it with DTR = v and
\* the cached RTS; when the call succeeds only the written line changes in
\* the cached pair (and nothing changes when it fails), so in any run of
\* calls each line holds the last value successfully written to it.
C37_OneLine ==
    /\ [][ (last'.seq # last.seq
            /\ last'.op \in {"write_request_to_send", "write_data_terminal_ready"})
           => LET v == last'.arg.val
                  want == IF last'.op = "write_request_to_send"
                          THEN <<dtr_rts[1], v>> ELSE <<v, dtr_rts[2]>>
              IN  /\ \A i \in 1..Len(last'.xfers) :
                       /\ last'.xfers[i].request = SET_CONTROL_LINE_STATE
                       /\ last'.xfers[i].value =
                            (IF want[1] THEN 1 ELSE 0) + (IF want[2] THEN 2 ELSE 0)
                  /\ last'.res = "Ok" => Len(last'.xfers) = 1 /\ dtr_rts' = want
                  /\ last'.res # "Ok" => dtr_rts' = dtr_rts ]_vars
    /\ [](dtr_rts = hist_lines)

\* RTS was raised while DTR was up, and DTR is still up
C37_Witness ==
    /\ last.op = "write_request_to_send" /\ last.res = "Ok" /\ last.arg.val
    /\ last.xfers[1].value = 3
    /\ dtr_rts = <<TRUE, TRUE>>

\* C38: the direction is validated before any I/O. read_bulk on an endpoint
\* that is not IN, write_bulk on one that is not OUT, read_control with an
\* OUT request type and write_control with an IN request type return
\* BadParam and issue no transfer, for an empty buffer too; no other call
\* returns BadParam, and the ACM request type (Out, Class, Interface)
\* passes write_control's check.
C38_DirectionFirst ==
    /\ [][ (last'.seq # last.seq
            /\ last'.op \in {"read_bulk", "write_bulk", "read_control", "write_control"})
           => LET a == last'.arg
                  wrong ==
                    CASE last'.op = "read_bulk" -> a.val.direction # "In"
                      [] last'.op = "write_bulk" -> a.val.direction # "Out"
                      [] last'.op = "read_control" -> a.val < 128
                      [] last'.op = "write_control" -> a.val >= 128
              IN  /\ wrong => last'.res = "BadParam" /\ last'.xfers = NoXfer
                  /\ ~wrong => last'.res # "BadParam"
                  /\ (last'.op = "write_control" /\ a.val = USB_CTRL_REQTYPE_ACM)
                       => last'.res # "BadParam" /\ Len(last'.xfers) = 1 ]_vars
    /\ [](ctrl_request_dir(USB_CTRL_REQTYPE_ACM) = "Out")

\* read_bulk was handed an OUT endpoint and an empty buffer
C38_Witness ==
    /\ last.op = "read_bulk" /\ last.arg.len = 0
    /\ last.arg.val.direction = "Out"
    /\ last.res = "BadParam" /\ last.xfers = NoXfer

====
